---------------------------- MODULE Spec2Model ----------------------------
(***************************************************************************)
(* Title search engine of aht-bot: record normalisation, classification,   *)
(* chain of title, encumbrance/discharge matching, risk flags and summary. *)
(*                                                                         *)
(* Two programs of the repository run the same pipeline:                   *)
(*   impl = "node"  : performTitleSearch, src/src/search/titleSearch.js    *)
(*                    (lines 353-761, with optional PDF scanning)          *)
(*   impl = "pages" : onRequestPost, src/functions/api/search.js           *)
(*                    (same code as titleSearch.js lines 15-327)           *)
(*                                                                         *)
(* JavaScript strings are sequences of one-character strings, so that      *)
(* includes, split, toLowerCase and String(n) are computed, not assumed.   *)
(* A missing (undefined / null) string is NoValue; a missing or falsy      *)
(* number is 0.  Object identity of a document is its field id, the        *)
(* position of its raw record in the registry's result list.               *)
(***************************************************************************)
EXTENDS Integers, Sequences, FiniteSets

VARIABLES
    impl,             \* which program runs: "node", "pages" or "browser"
    scanDocuments,    \* params.scanDocuments (node only)
    results,          \* raw records returned by the registry search
    pc,               \* position inside performTitleSearch / onRequestPost
    documents,        \* results.map(parseRecord)
    grouped,          \* groupByDocType(documents)
    chainOfTitle,     \* buildChainOfTitle(grouped.deeds)
    mortgageAnalysis, \* analyzeMortgages(...) or the scanned re-analysis
    scanResults,      \* batchExtractDocuments' results object (being filled)
    matchResults,     \* matchSatisfactionsToMortgages' result (scanned mode)
    openLiens,        \* identifyOpenLiens(...)
    flags,            \* identifyFlags(documents)
    summary,          \* generateSummary(...)
    docText,          \* the text handed to a parser
    parsedInfo,       \* the info object the parser returned
    loopSat,          \* matcher loop: sat of the outer loop
    loopMtg,          \* matcher loop: unmatchedMortgages[i] of the inner loop
    loopScore,        \* matcher loop: score at the end of the inner loop body
    tesseractWorker,  \* let tesseractWorker: 0 (null) or a worker
    tesseractLoading, \* let tesseractLoading (pdfScanner.js only)
    workers,          \* the state of every worker createWorker resolved with
    calls             \* the running calls of runOCR and terminateOCR

vars == <<impl, scanDocuments, results, pc, documents, grouped, chainOfTitle,
          mortgageAnalysis, scanResults, matchResults, openLiens, flags,
          summary,
          docText, parsedInfo, loopSat, loopMtg, loopScore,
          tesseractWorker, tesseractLoading, workers, calls>>

\* the variables of a direct call of a parser
parserVars == <<docText, parsedInfo>>

\* the variables of one pass of the matcher's inner loop
loopVars == <<loopSat, loopMtg, loopScore>>

\* the variables of the OCR worker and its callers
ocrVars == <<tesseractWorker, tesseractLoading, workers, calls>>

-----------------------------------------------------------------------------
(* Bounds of the model *)

\* Longest result list of a search whose classification, flags and summary
\* are examined.
MaxDocs == 3

\* Longest result list of a search whose mortgages and satisfactions are
\* matched (two pairs need four documents).
MaxMatchDocs == 4

-----------------------------------------------------------------------------
(* JavaScript strings *)

NoValue == <<"undefined">>

\* a missing list field (PartiesOne, PartiesTwo)
NoList == <<NoValue>>

Max(a, b) == IF a >= b THEN a ELSE b

Abs(x) == IF x < 0 THEN -x ELSE x

\* String.prototype.includes
Includes(s, t) ==
    \E k \in 0..(Len(s) - Len(t)) : SubSeq(s, k + 1, k + Len(t)) = t

\* s.split(' ')[0]
FirstToken(s) ==
    LET spaces == {k \in 1..Len(s) : s[k] = " "}
    IN  IF spaces = {} THEN s
        ELSE SubSeq(s, 1, (CHOOSE k \in spaces : \A j \in spaces : k <= j) - 1)

LowerChar(c) ==
    CASE c = "A" -> "a" [] c = "B" -> "b" [] c = "C" -> "c" [] c = "D" -> "d"
      [] c = "E" -> "e" [] c = "F" -> "f" [] c = "G" -> "g" [] c = "H" -> "h"
      [] c = "I" -> "i" [] c = "J" -> "j" [] c = "K" -> "k" [] c = "L" -> "l"
      [] c = "M" -> "m" [] c = "N" -> "n" [] c = "O" -> "o" [] c = "P" -> "p"
      [] c = "Q" -> "q" [] c = "R" -> "r" [] c = "S" -> "s" [] c = "T" -> "t"
      [] c = "U" -> "u" [] c = "V" -> "v" [] c = "W" -> "w" [] c = "X" -> "x"
      [] c = "Y" -> "y" [] c = "Z" -> "z" [] OTHER -> c

\* String.prototype.toLowerCase
ToLower(s) == [k \in 1..Len(s) |-> LowerChar(s[k])]

\* Array.prototype.join(sep)
RECURSIVE Join(_, _)
Join(names, sep) ==
    IF Len(names) = 0 THEN <<>>
    ELSE IF Len(names) = 1 THEN names[1]
    ELSE names[1] \o sep \o Join(Tail(names), sep)

DigitChar(d) ==
    CASE d = 0 -> "0" [] d = 1 -> "1" [] d = 2 -> "2" [] d = 3 -> "3"
      [] d = 4 -> "4" [] d = 5 -> "5" [] d = 6 -> "6" [] d = 7 -> "7"
      [] d = 8 -> "8" [] OTHER -> "9"

\* String(n) for a non-negative integer n
RECURSIVE StringOf(_)
StringOf(n) ==
    IF n < 10 THEN <<DigitChar(n)>>
    ELSE Append(StringOf(n \div 10), DigitChar(n % 10))

RECURSIVE SelectIdx(_, _, _)
\* the positions i..Len(s) of s that are in the set keep, in order
SelectIdx(s, keep, i) ==
    IF i > Len(s) THEN <<>>
    ELSE IF i \in keep THEN <<s[i]>> \o SelectIdx(s, keep, i + 1)
    ELSE SelectIdx(s, keep, i + 1)

\* Array.prototype.splice(i, 1)
RemoveAt(s, i) == SubSeq(s, 1, i - 1) \o SubSeq(s, i + 1, Len(s))

-----------------------------------------------------------------------------
(* Document type codes *)

cD         == <<"D">>
cMTG       == <<"M","T","G">>
cMTGREV    == <<"M","T","G","R","E","V">>
cMTGNDOC   == <<"M","T","G","N","D","O","C">>
cMTGNT     == <<"M","T","G","N","T">>
cMTGNIT    == <<"M","T","G","N","I","T">>
cSAT       == <<"S","A","T">>
cSATCORPTX == <<"S","A","T","C","O","R","P","T","X">>
cLN        == <<"L","N">>
cMEDLN     == <<"M","E","D","L","N">>
cLNCORPTX  == <<"L","N","C","O","R","P","T","X">>
cLP        == <<"L","P">>
cEAS       == <<"E","A","S">>
cRES       == <<"R","E","S">>
cJUD       == <<"J","U","D">>
cREL       == <<"R","E","L">>
cRELLP     == <<"R","E","L","L","P">>
cASG       == <<"A","S","G">>
cASGT      == <<"A","S","G","T">>
cASINT     == <<"A","S","I","N","T">>
cMOD       == <<"M","O","D">>
cTAX       == <<"T","A","X">>

-----------------------------------------------------------------------------
(* Record Normalizer *)

\* DocType.match(/\(([^)]+)\)/)?.[1] : the first parenthesised, non-empty,
\* ")"-free substring; NoValue when there is none.
ParenCode(s) ==
    LET close(p) == {q \in (p + 1)..Len(s) : s[q] = ")"}
        first(S) == CHOOSE q \in S : \A r \in S : q <= r
        starts   == {p \in 1..Len(s) :
                        /\ s[p] = "("
                        /\ close(p) # {}
                        /\ first(close(p)) > p + 1}
    IN  IF starts = {} THEN NoValue
        ELSE LET p == first(starts)
             IN  SubSeq(s, p + 1, first(close(p)) - 1)

\* record.DocType?.match(...)?.[1] || record.DocType
DocTypeShort(docType) ==
    IF docType = NoValue THEN NoValue
    ELSE IF ParenCode(docType) # NoValue THEN ParenCode(docType)
    ELSE docType

\* the extractedData of a document that was never scanned: every field
\* reads as undefined
NoExtractedData ==
    [principalAmount |-> 0, lenderName |-> NoValue,
     satisfiedInstrumentNumber |-> NoValue, satisfiedBookPage |-> NoValue,
     originalAmount |-> 0, originalLender |-> NoValue]

\* parseRecord; id is the position of the record (the identity of the object
\* that results.map creates)
parseRecord(record, id) ==
    [id               |-> id,
     instrumentNumber |-> record.Instrument,
     grantors         |-> IF record.PartiesOne = NoList THEN <<>>
                          ELSE record.PartiesOne,
     grantees         |-> IF record.PartiesTwo = NoList THEN <<>>
                          ELSE record.PartiesTwo,
     recordTimestamp  |-> record.RecordDate,
     docType          |-> record.DocType,
     docTypeShort     |-> DocTypeShort(record.DocType),
     documentId       |-> record.ID,
     bookNum          |-> record.BookNum,
     pageNum          |-> record.PageNum,
     extractedData    |-> NoExtractedData]

-----------------------------------------------------------------------------
(* Classifier / Grouper *)

GroupKeys(im) ==
    {"deeds", "mortgages", "satisfactions", "liens", "lisPendens",
     "easements", "restrictions", "judgments", "releases", "assignments",
     "other"}
    \cup (IF im = "node" THEN {"modifications"} ELSE {})

\* mutant: a switch without its default branch
BucketOfNoDefault(im, type) ==
    CASE type = cD -> "deeds"
      [] type \in {cMTG, cMTGREV, cMTGNDOC, cMTGNT, cMTGNIT} -> "mortgages"
      [] type \in {cSAT, cSATCORPTX} -> "satisfactions"
      [] type \in {cLN, cMEDLN, cLNCORPTX} -> "liens"
      [] type = cLP -> "lisPendens"
      [] OTHER -> "dropped"

\* the switch on doc.docTypeShort
BucketOf(im, type) ==
    CASE type = cD -> "deeds"
      [] type \in {cMTG, cMTGREV, cMTGNDOC, cMTGNT, cMTGNIT} -> "mortgages"
      [] type \in {cSAT, cSATCORPTX} -> "satisfactions"
      [] type \in {cLN, cMEDLN, cLNCORPTX} -> "liens"
      [] type = cLP -> "lisPendens"
      [] type = cEAS -> "easements"
      [] type = cRES -> "restrictions"
      [] type = cJUD -> "judgments"
      [] type \in {cREL, cRELLP} -> "releases"
      [] type \in {cASG, cASGT, cASINT} -> "assignments"
      [] type = cMOD /\ im = "node" -> "modifications"
      [] OTHER -> "other"

\* the comparator handed to Array.prototype.sort
Compare(dir, a, b) ==
    IF dir = "desc" THEN b.recordTimestamp - a.recordTimestamp
    ELSE a.recordTimestamp - b.recordTimestamp

\* mutant: an unstable sort, x goes before the elements it ties with
InsertSortedUnstable(sorted, x, dir) ==
    LET before == {k \in 1..Len(sorted) : Compare(dir, sorted[k], x) < 0}
        n      == Cardinality(before)
    IN  SubSeq(sorted, 1, n) \o <<x>> \o SubSeq(sorted, n + 1, Len(sorted))

\* insert x after every element that does not sort after it
InsertSorted(sorted, x, dir) ==
    LET before == {k \in 1..Len(sorted) : Compare(dir, sorted[k], x) <= 0}
        n      == Cardinality(before)
    IN  SubSeq(sorted, 1, n) \o <<x>> \o SubSeq(sorted, n + 1, Len(sorted))

RECURSIVE SortFrom(_, _, _, _)
SortFrom(sorted, s, i, dir) ==
    IF i > Len(s) THEN sorted
    ELSE SortFrom(InsertSorted(sorted, s[i], dir), s, i + 1, dir)

\* Array.prototype.sort(comparator): a stable sort (ECMAScript 2019)
StableSort(s, dir) == SortFrom(<<>>, s, 1, dir)

RECURSIVE PushAll(_, _, _, _)
\* the for loop that pushes every document to its bucket
PushAll(groups, docs, i, im) ==
    IF i > Len(docs) THEN groups
    ELSE PushAll([groups EXCEPT ![BucketOf(im, docs[i].docTypeShort)] =
                                    Append(@, docs[i])],
                 docs, i + 1, im)

groupByDocType(docs, im) ==
    LET pushed == PushAll([k \in GroupKeys(im) |-> <<>>], docs, 1, im)
    IN  [k \in GroupKeys(im) |-> StableSort(pushed[k], "desc")]

-----------------------------------------------------------------------------
(* Chain-of-Title Builder *)

\* mutant: the chain keeps the order of the bucket (newest first)
buildChainOfTitleUnsorted(deeds) ==
    [index \in 1..Len(deeds) |->
        [sequence         |-> index,
         instrumentNumber |-> deeds[index].instrumentNumber,
         recordTimestamp  |-> deeds[index].recordTimestamp,
         id               |-> deeds[index].id,
         documentId       |-> deeds[index].documentId]]

buildChainOfTitle(deeds) ==
    IF Len(deeds) = 0 THEN <<>>
    ELSE LET sorted == StableSort(deeds, "asc")
         IN  [index \in 1..Len(sorted) |->
                 [sequence         |-> index,
                  instrumentNumber |-> sorted[index].instrumentNumber,
                  recordTimestamp  |-> sorted[index].recordTimestamp,
                  id               |-> sorted[index].id,
                  documentId       |-> sorted[index].documentId]]

-----------------------------------------------------------------------------
(* Encumbrance-Discharge Matcher: name-only matching *)

\* satGrantors.includes(grantors.split(' ')[0]) ||
\* grantors.includes(satGrantors.split(' ')[0])   on the joined, lower-cased
\* grantor lists (pages)
JoinedNameMatch(doc, other) ==
    LET grantors      == ToLower(Join(doc.grantors, <<" ">>))
        otherGrantors == ToLower(Join(other.grantors, <<" ">>))
    IN  \/ Includes(otherGrantors, FirstToken(grantors))
        \/ Includes(grantors, FirstToken(otherGrantors))

\* satisfactions.find(...): the first satisfaction whose names match, 0 if none
FindMatchingSat(mtg, satisfactions) ==
    LET hits == {k \in 1..Len(satisfactions) :
                    JoinedNameMatch(mtg, satisfactions[k])}
    IN  IF hits = {} THEN 0 ELSE CHOOSE k \in hits : \A j \in hits : k <= j

RECURSIVE AnalyzeByNameFrom(_, _, _, _)
AnalyzeByNameFrom(analysis, mortgages, satisfactions, m) ==
    IF m > Len(mortgages) THEN analysis
    ELSE LET mtg == mortgages[m]
             k   == FindMatchingSat(mtg, satisfactions)
         IN  AnalyzeByNameFrom(
                 IF k # 0
                 THEN [analysis EXCEPT
                          !.satisfied = @ + 1,
                          !.satisfiedList =
                              Append(@, [mortgage |-> mtg,
                                         satisfaction |-> satisfactions[k],
                                         confidence |-> "none"])]
                 ELSE [analysis EXCEPT !.open = Append(@, mtg)],
                 mortgages, satisfactions, m + 1)

\* analyzeMortgages of the Pages Function (and of titleSearch.js 191-222)
analyzeMortgagesByName(mortgages, satisfactions) ==
    AnalyzeByNameFrom([total |-> Len(mortgages), satisfied |-> 0,
                       open |-> <<>>, satisfiedList |-> <<>>,
                       unmatchedSatisfactions |-> <<>>],
                      mortgages, satisfactions, 1)

\* satName.includes(firstName) || firstName.includes(satName.split(' ')[0])
NameOverlap(firstName, otherName) ==
    \/ Includes(otherName, firstName)
    \/ Includes(firstName, FirstToken(otherName))

\* the score of one satisfaction for one mortgage (node, name-only)
NameScore(mtg, sat) ==
    LET mtgGrantors == [k \in 1..Len(mtg.grantors) |-> ToLower(mtg.grantors[k])]
        satGrantors == [k \in 1..Len(sat.grantors) |-> ToLower(sat.grantors[k])]
        pairs == {p \in (1..Len(mtgGrantors)) \X (1..Len(satGrantors)) :
                     NameOverlap(FirstToken(mtgGrantors[p[1]]),
                                 satGrantors[p[2]])}
    IN  (IF sat.recordTimestamp > mtg.recordTimestamp THEN 10 ELSE 0)
        + 5 * Cardinality(pairs)

\* mutant: among equal scores the last satisfaction of the pool wins
BestInPoolLastOfEqual(mtg, availableSats) ==
    LET idx  == 1..Len(availableSats)
        top  == {i \in idx : /\ NameScore(mtg, availableSats[i]) > 0
                             /\ \A j \in idx :
                                   NameScore(mtg, availableSats[j])
                                       <= NameScore(mtg, availableSats[i])}
    IN  IF top = {} THEN [index |-> 0, score |-> 0]
        ELSE LET i == CHOOSE i \in top : \A j \in top : i >= j
             IN  [index |-> i, score |-> NameScore(mtg, availableSats[i])]

\* the inner loop: [index, score] of the first satisfaction of the pool with
\* the highest score above 0; index 0 when no score is above 0
BestInPool(mtg, availableSats) ==
    LET idx  == 1..Len(availableSats)
        top  == {i \in idx : /\ NameScore(mtg, availableSats[i]) > 0
                             /\ \A j \in idx :
                                   NameScore(mtg, availableSats[j])
                                       <= NameScore(mtg, availableSats[i])}
    IN  IF top = {} THEN [index |-> 0, score |-> 0]
        ELSE LET i == CHOOSE i \in top : \A j \in top : i <= j
             IN  [index |-> i, score |-> NameScore(mtg, availableSats[i])]

\* mutant: the matched satisfaction stays in the pool
PoolAfterMatchKept(availableSats, index) == availableSats

\* availableSats.splice(bestMatchIndex, 1): the pool after a match
PoolAfterMatch(availableSats, index) == RemoveAt(availableSats, index)

RECURSIVE AnalyzeFrom(_, _, _, _)
AnalyzeFrom(analysis, availableSats, mortgages, m) ==
    IF m > Len(mortgages) THEN analysis
    ELSE LET mtg  == mortgages[m]
             best == BestInPool(mtg, availableSats)
         IN  IF best.index >= 1 /\ best.score >= 10
             THEN AnalyzeFrom(
                      [analysis EXCEPT
                          !.satisfied = @ + 1,
                          !.satisfiedList =
                              Append(@, [mortgage |-> mtg,
                                         satisfaction |->
                                             availableSats[best.index],
                                         confidence |-> "low"])],
                      PoolAfterMatch(availableSats, best.index),
                      mortgages, m + 1)
             ELSE AnalyzeFrom([analysis EXCEPT !.open = Append(@, mtg)],
                              availableSats, mortgages, m + 1)

\* analyzeMortgages of the search orchestration (pool-based fallback)
analyzeMortgages(mortgages, satisfactions) ==
    AnalyzeFrom([total |-> Len(mortgages), satisfied |-> 0,
                 open |-> <<>>, satisfiedList |-> <<>>,
                 unmatchedSatisfactions |-> <<>>],
                satisfactions, mortgages, 1)

\* identifyOpenLiens of the Pages Function: releases.some(...)
identifyOpenLiensByName(liens, releases) ==
    SelectIdx(liens,
              {l \in 1..Len(liens) :
                  ~ \E r \in 1..Len(releases) :
                        JoinedNameMatch(liens[l], releases[r])},
              1)

\* the some/some name test of identifyOpenLiens (node)
LienNameMatch(lien, rel) ==
    \E l \in 1..Len(lien.grantors) : \E r \in 1..Len(rel.grantors) :
        NameOverlap(FirstToken(ToLower(lien.grantors[l])),
                    ToLower(rel.grantors[r]))

\* mutant: the first release of the pool that matches the lien's names,
\* recorded later or not
FirstReleaseByName(lien, availableReleases) ==
    LET hits == {i \in 1..Len(availableReleases) :
                    LienNameMatch(lien, availableReleases[i])}
    IN  IF hits = {} THEN 0 ELSE CHOOSE i \in hits : \A j \in hits : i <= j

\* the first release of the pool that is later than the lien and matches its
\* names; 0 when there is none
FirstRelease(lien, availableReleases) ==
    LET hits == {i \in 1..Len(availableReleases) :
                    /\ availableReleases[i].recordTimestamp
                           > lien.recordTimestamp
                    /\ LienNameMatch(lien, availableReleases[i])}
    IN  IF hits = {} THEN 0 ELSE CHOOSE i \in hits : \A j \in hits : i <= j

RECURSIVE OpenLiensFrom(_, _, _, _)
OpenLiensFrom(open, availableReleases, liens, l) ==
    IF l > Len(liens) THEN open
    ELSE LET i == FirstRelease(liens[l], availableReleases)
         IN  IF i # 0
             THEN OpenLiensFrom(open, RemoveAt(availableReleases, i),
                                liens, l + 1)
             ELSE OpenLiensFrom(Append(open, liens[l]), availableReleases,
                                liens, l + 1)

\* identifyOpenLiens of the search orchestration
identifyOpenLiens(liens, releases) == OpenLiensFrom(<<>>, releases, liens, 1)

-----------------------------------------------------------------------------
(* Encumbrance-Discharge Matcher: multi-signal matching *)

\* mutant: the extracted number is compared with the document ID
InstrumentSignalOfDocumentId(sat, mtg) ==
    /\ sat.extractedData.satisfiedInstrumentNumber # NoValue
    /\ mtg.instrumentNumber # 0
    /\ sat.extractedData.satisfiedInstrumentNumber
           = StringOf(mtg.documentId)

\* Method 1: instrument number match
InstrumentSignal(sat, mtg) ==
    /\ sat.extractedData.satisfiedInstrumentNumber # NoValue
    /\ mtg.instrumentNumber # 0
    /\ sat.extractedData.satisfiedInstrumentNumber
           = StringOf(mtg.instrumentNumber)

\* Method 2: book/page match
BookPageSignal(sat, mtg) ==
    /\ sat.extractedData.satisfiedBookPage # NoValue
    /\ mtg.bookNum # 0
    /\ mtg.pageNum # 0
    /\ Includes(sat.extractedData.satisfiedBookPage, StringOf(mtg.bookNum))
    /\ Includes(sat.extractedData.satisfiedBookPage, StringOf(mtg.pageNum))

\* Method 3: amount match, |a - p| / p < 0.01 (amounts are whole dollars)
AmountSignal(sat, mtg) ==
    /\ sat.extractedData.originalAmount # 0
    /\ mtg.extractedData.principalAmount # 0
    /\ 100 * Abs(sat.extractedData.originalAmount
                 - mtg.extractedData.principalAmount)
           < mtg.extractedData.principalAmount

\* Method 4: lender name match
LenderSignal(sat, mtg) ==
    /\ sat.extractedData.originalLender # NoValue
    /\ mtg.extractedData.lenderName # NoValue
    /\ LET satLender == ToLower(sat.extractedData.originalLender)
           mtgLender == ToLower(mtg.extractedData.lenderName)
       IN  \/ Includes(satLender, FirstToken(mtgLender))
           \/ Includes(mtgLender, FirstToken(satLender))

\* Method 5: grantor name match
GrantorSignal(sat, mtg) ==
    LET satGrantors == ToLower(Join(sat.grantors, <<" ">>))
        mtgGrantors == ToLower(Join(mtg.grantors, <<" ">>))
    IN  /\ satGrantors # <<>>
        /\ mtgGrantors # <<>>
        /\ FirstToken(satGrantors) = FirstToken(mtgGrantors)

\* mutant: a penalty that outweighs the instrument number
DateScoreHarsh(sat, mtg) ==
    IF sat.recordTimestamp > mtg.recordTimestamp THEN 5 ELSE -80

\* Method 6: date logic
DateScore(sat, mtg) ==
    IF sat.recordTimestamp > mtg.recordTimestamp THEN 5 ELSE -20

\* mutant: the book/page is looked at only when the instrument number did
\* not match
PairScoreElseIf(sat, mtg) ==
      (IF InstrumentSignal(sat, mtg) THEN 100
       ELSE IF BookPageSignal(sat, mtg) THEN 90 ELSE 0)
    + (IF AmountSignal(sat, mtg) THEN 30 ELSE 0)
    + (IF LenderSignal(sat, mtg) THEN 20 ELSE 0)
    + (IF GrantorSignal(sat, mtg) THEN 10 ELSE 0)
    + DateScore(sat, mtg)

\* the score of one (satisfaction, mortgage) pair
PairScore(sat, mtg) ==
      (IF InstrumentSignal(sat, mtg) THEN 100 ELSE 0)
    + (IF BookPageSignal(sat, mtg) THEN 90 ELSE 0)
    + (IF AmountSignal(sat, mtg) THEN 30 ELSE 0)
    + (IF LenderSignal(sat, mtg) THEN 20 ELSE 0)
    + (IF GrantorSignal(sat, mtg) THEN 10 ELSE 0)
    + DateScore(sat, mtg)

\* mutant: if (score >= bestScore), the last of equal scores wins
BestMortgageLastOfEqual(sat, unmatchedMortgages) ==
    LET idx == 1..Len(unmatchedMortgages)
        top == {i \in idx : /\ PairScore(sat, unmatchedMortgages[i]) > 0
                            /\ \A j \in idx :
                                  PairScore(sat, unmatchedMortgages[j])
                                      <= PairScore(sat, unmatchedMortgages[i])}
    IN  IF top = {} THEN [index |-> 0, score |-> 0]
        ELSE LET i == CHOOSE i \in top : \A j \in top : i >= j
             IN  [index |-> i, score |-> PairScore(sat, unmatchedMortgages[i])]

\* the inner loop: [index, score] of the first unmatched mortgage with the
\* highest score above 0; index 0 (bestMatch null) when no score is above 0
BestMortgage(sat, unmatchedMortgages) ==
    LET idx == 1..Len(unmatchedMortgages)
        top == {i \in idx : /\ PairScore(sat, unmatchedMortgages[i]) > 0
                            /\ \A j \in idx :
                                  PairScore(sat, unmatchedMortgages[j])
                                      <= PairScore(sat, unmatchedMortgages[i])}
    IN  IF top = {} THEN [index |-> 0, score |-> 0]
        ELSE LET i == CHOOSE i \in top : \A j \in top : i <= j
             IN  [index |-> i, score |-> PairScore(sat, unmatchedMortgages[i])]

\* mutant: 'high' only from 100
MatchConfidenceHighFrom100(score) ==
    IF score >= 100 THEN "high" ELSE IF score >= 50 THEN "medium" ELSE "low"

\* bestScore >= 90 ? 'high' : bestScore >= 50 ? 'medium' : 'low'
MatchConfidence(score) ==
    IF score >= 90 THEN "high" ELSE IF score >= 50 THEN "medium" ELSE "low"

\* mutant: the matched mortgage stays among the unmatched
MortgagesAfterMatchKept(unmatchedMortgages, index) == unmatchedMortgages

\* unmatchedMortgages.splice(bestMatch.index, 1)
MortgagesAfterMatch(unmatchedMortgages, index) ==
    RemoveAt(unmatchedMortgages, index)

\* one iteration of the loop over the satisfactions
MatchOne(st, sat) ==
    LET best == BestMortgage(sat, st.unmatchedMortgages)
    IN  IF best.index >= 1 /\ best.score >= 30
        THEN [matches |->
                  Append(st.matches,
                         [satisfaction |-> sat,
                          mortgage     |-> st.unmatchedMortgages[best.index],
                          score        |-> best.score,
                          confidence   |-> MatchConfidence(best.score)]),
              unmatchedMortgages |->
                  MortgagesAfterMatch(st.unmatchedMortgages, best.index),
              usedSatisfactions |->
                  st.usedSatisfactions \cup {sat.instrumentNumber}]
        ELSE st

RECURSIVE MatchFrom(_, _, _)
MatchFrom(st, satisfactions, s) ==
    IF s > Len(satisfactions) THEN st
    ELSE MatchFrom(MatchOne(st, satisfactions[s]), satisfactions, s + 1)

matchSatisfactionsToMortgages(mortgages, satisfactions) ==
    LET st == MatchFrom([matches |-> <<>>, unmatchedMortgages |-> mortgages,
                         usedSatisfactions |-> {}],
                        satisfactions, 1)
    IN  [matches |-> st.matches,
         unmatchedMortgages |-> st.unmatchedMortgages,
         unmatchedSatisfactions |->
             SelectIdx(satisfactions,
                       {k \in 1..Len(satisfactions) :
                           satisfactions[k].instrumentNumber
                               \notin st.usedSatisfactions},
                       1)]

-----------------------------------------------------------------------------
(* Risk Flag Engine *)

SecondsPerDay == 86400

QuickFlipDays == 90

\* documents.filter(d => d.docTypeShort === code)
FilterByCode(docs, code) ==
    SelectIdx(docs, {k \in 1..Len(docs) : docs[k].docTypeShort = code}, 1)

\* d.docType.includes('TAX') reads a property of undefined when the record
\* had no DocType: the filter callback throws a TypeError
identifyFlagsThrows(docs) ==
    \E k \in 1..Len(docs) :
        /\ docs[k].docTypeShort # cLNCORPTX
        /\ docs[k].docType = NoValue

\* mutant: the difference in seconds is compared with the days
QuickFlipInSeconds(recentDeed, previousDeed) ==
    recentDeed.recordTimestamp - previousDeed.recordTimestamp < QuickFlipDays

\* daysBetween < 90, daysBetween = seconds / 86400 (seconds >= 0)
QuickFlip(recentDeed, previousDeed) ==
    (recentDeed.recordTimestamp - previousDeed.recordTimestamp)
        \div SecondsPerDay < QuickFlipDays

\* the flags identifyFlags returns when it does not throw
identifyFlags(docs) ==
    LET lisPendens == FilterByCode(docs, cLP)
        judgments  == FilterByCode(docs, cJUD)
        taxLiens   == SelectIdx(docs,
                          {k \in 1..Len(docs) :
                              \/ docs[k].docTypeShort = cLNCORPTX
                              \/ Includes(docs[k].docType, cTAX)}, 1)
        deeds      == FilterByCode(docs, cD)
        sorted     == StableSort(deeds, "desc")
    IN    (IF Len(lisPendens) > 0
           THEN <<[severity |-> "high", type |-> "lis_pendens",
                   documents |-> lisPendens]>>
           ELSE <<>>)
       \o (IF Len(judgments) > 0
           THEN <<[severity |-> "high", type |-> "judgment",
                   documents |-> judgments]>>
           ELSE <<>>)
       \o (IF Len(taxLiens) > 0
           THEN <<[severity |-> "high", type |-> "tax_lien",
                   documents |-> taxLiens]>>
           ELSE <<>>)
       \o (IF Len(deeds) >= 2 /\ QuickFlip(sorted[1], sorted[2])
           THEN <<[severity |-> "medium", type |-> "quick_flip",
                   documents |-> <<sorted[1], sorted[2]>>]>>
           ELSE <<>>)

-----------------------------------------------------------------------------
(* Summary / Risk Aggregator *)

\* flags.filter(f => f.severity === severity).length
CountSeverity(fl, severity) ==
    Cardinality({k \in 1..Len(fl) : fl[k].severity = severity})

\* mutant: open liens are tested before the high-severity flags
RiskLevelLiensFirst(highFlags, mediumFlags, nOpenLiens, nOpenMortgages) ==
    IF nOpenLiens > 0 THEN "MEDIUM"
    ELSE IF highFlags > 0 THEN "HIGH"
    ELSE IF mediumFlags > 0 \/ nOpenMortgages > 1 THEN "MEDIUM"
    ELSE "LOW"

\* mutant: the open mortgages are not counted
RiskLevelNoMortgages(highFlags, mediumFlags, nOpenLiens, nOpenMortgages) ==
    IF highFlags > 0 THEN "HIGH"
    ELSE IF mediumFlags > 0 \/ nOpenLiens > 0 THEN "MEDIUM"
         ELSE "LOW"

\* riskLevel of the search orchestration (titleSearch.js 758-759)
RiskLevel(highFlags, mediumFlags, nOpenLiens, nOpenMortgages) ==
    IF highFlags > 0 THEN "HIGH"
    ELSE IF mediumFlags > 0 \/ nOpenLiens > 0 \/ nOpenMortgages > 1
         THEN "MEDIUM"
         ELSE "LOW"

\* riskLevel of the Pages Function (search.js 256)
RiskLevelPages(highFlags, mediumFlags, nOpenLiens, nOpenMortgages) ==
    IF highFlags > 0 THEN "HIGH"
    ELSE IF mediumFlags > 0 \/ nOpenLiens > 0 THEN "MEDIUM"
         ELSE "LOW"

generateSummary(im, docs, chain, analysis, liens, fl) ==
    LET highFlags   == CountSeverity(fl, "high")
        mediumFlags == CountSeverity(fl, "medium")
    IN  [totalDocuments      |-> Len(docs),
         chainOfTitleLength  |-> Len(chain),
         totalMortgages      |-> analysis.total,
         satisfiedMortgages  |-> analysis.satisfied,
         openMortgages       |-> Len(analysis.open),
         openLiens           |-> Len(liens),
         highSeverityFlags   |-> highFlags,
         mediumSeverityFlags |-> mediumFlags,
         riskLevel           |->
             IF im = "node"
             THEN RiskLevel(highFlags, mediumFlags, Len(liens),
                            Len(analysis.open))
             ELSE RiskLevelPages(highFlags, mediumFlags, Len(liens),
                                 Len(analysis.open))]

-----------------------------------------------------------------------------
(* Batch text extraction *)

\* `Book ${match[1]}, Page ${match[2]}` (parseSatisfactionText)
BookPageRef(book, page) ==
    <<"B","o","o","k"," ">> \o StringOf(book)
        \o <<","," ","P","a","g","e"," ">> \o StringOf(page)

\* The extraction of one PDF, as batchExtractDocuments sees it: what
\* extractTextFromDocument returned and what the parser of the document's
\* category read in its text.  thrown: the awaited call (or the parsing)
\* raised an error instead of returning, which the loop's catch handles.
PdfError ==
    [success |-> FALSE, hasText |-> FALSE, parsed |-> NoExtractedData,
     thrown |-> FALSE]

PdfNoText ==
    [success |-> TRUE, hasText |-> FALSE, parsed |-> NoExtractedData,
     thrown |-> FALSE]

PdfText(data) ==
    [success |-> TRUE, hasText |-> TRUE, parsed |-> data, thrown |-> FALSE]

PdfThrows ==
    [success |-> FALSE, hasText |-> FALSE, parsed |-> NoExtractedData,
     thrown |-> TRUE]

\* mutant: a document whose extraction failed is left out of the results
ExtractOneDropsFailed(res, doc, extraction) ==
    LET ok == extraction.success /\ extraction.hasText
    IN  [scanned           |-> res.scanned + 1,
         successful        |-> res.successful + (IF ok THEN 1 ELSE 0),
         failed            |-> res.failed
                                 + (IF extraction.thrown THEN 1 ELSE 0),
         needsManualReview |-> res.needsManualReview
                                 + (IF ok \/ extraction.thrown THEN 0 ELSE 1),
         documents         |->
             IF extraction.success
             THEN Append(res.documents,
                         [doc EXCEPT !.extractedData =
                             IF ok THEN extraction.parsed
                             ELSE NoExtractedData])
             ELSE res.documents,
         reviewIds         |-> res.reviewIds
                                 \cup (IF ok THEN {} ELSE {doc.id})]

\* mutant: the catch branch also counts its entry as needing manual review
ExtractOneFailedTwice(res, doc, extraction) ==
    LET parsedType ==
            \/ Includes(doc.docTypeShort, cMTG)
            \/ Includes(doc.docTypeShort, cSAT)
            \/ doc.docTypeShort = cD
        ok == extraction.success /\ extraction.hasText
        result ==
            [doc EXCEPT !.extractedData =
                IF ok /\ doc.docTypeShort # NoValue /\ parsedType
                THEN extraction.parsed ELSE NoExtractedData]
    IN  [scanned           |-> res.scanned + 1,
         successful        |-> res.successful + (IF ok THEN 1 ELSE 0),
         failed            |-> res.failed
                                 + (IF extraction.thrown THEN 1 ELSE 0),
         needsManualReview |-> res.needsManualReview + (IF ok THEN 0 ELSE 1),
         documents         |-> Append(res.documents, result),
         reviewIds         |-> res.reviewIds
                                 \cup (IF ok THEN {} ELSE {doc.id})]

\* one iteration of batchExtractDocuments' loop, extraction being the result
\* of the awaited extractTextFromDocument(doc.documentId)
ExtractOne(res, doc, extraction) ==
    LET parsedType ==
            \/ Includes(doc.docTypeShort, cMTG)
            \/ Includes(doc.docTypeShort, cSAT)
            \/ doc.docTypeShort = cD
        ok == extraction.success /\ extraction.hasText
        result ==
            [doc EXCEPT !.extractedData =
                IF ok /\ doc.docTypeShort # NoValue /\ parsedType
                THEN extraction.parsed ELSE NoExtractedData]
    IN  [scanned           |-> res.scanned + 1,
         successful        |-> res.successful + (IF ok THEN 1 ELSE 0),
         failed            |-> res.failed
                                 + (IF extraction.thrown THEN 1 ELSE 0),
         needsManualReview |-> res.needsManualReview
                                 + (IF ok \/ extraction.thrown THEN 0 ELSE 1),
         documents         |-> Append(res.documents, result),
         reviewIds         |-> res.reviewIds
                                 \cup (IF ok THEN {} ELSE {doc.id})]

EmptyScanResults ==
    [scanned |-> 0, successful |-> 0, failed |-> 0, needsManualReview |-> 0,
     documents |-> <<>>, reviewIds |-> {}]

\* d.docTypeShort === code || (d.docTypeShort && d.docTypeShort.includes(code))
ScannedOfType(docs, code) ==
    SelectIdx(docs,
              {k \in 1..Len(docs) :
                  /\ docs[k].docTypeShort # NoValue
                  /\ Includes(docs[k].docTypeShort, code)},
              1)

\* mutant: only the confident matches are listed
ScannedAnalysisConfidentOnly(total, mr) ==
    [total |-> total,
     satisfied |-> Len(mr.matches),
     open |-> mr.unmatchedMortgages,
     satisfiedList |->
         SelectIdx([k \in 1..Len(mr.matches) |->
                       [mortgage     |-> mr.matches[k].mortgage,
                        satisfaction |-> mr.matches[k].satisfaction,
                        confidence   |-> mr.matches[k].confidence]],
                   {k \in 1..Len(mr.matches) :
                       mr.matches[k].confidence = "high"},
                   1),
     unmatchedSatisfactions |-> mr.unmatchedSatisfactions]

\* the mortgage analysis rebuilt from the match results
ScannedAnalysis(total, mr) ==
    [total |-> total,
     satisfied |-> Len(mr.matches),
     open |-> mr.unmatchedMortgages,
     satisfiedList |->
         [k \in 1..Len(mr.matches) |->
             [mortgage     |-> mr.matches[k].mortgage,
              satisfaction |-> mr.matches[k].satisfaction,
              confidence   |-> mr.matches[k].confidence]],
     unmatchedSatisfactions |-> mr.unmatchedSatisfactions]

-----------------------------------------------------------------------------
(* Text-Signal Extractor: the parsers of the extracted text *)

\* null, for a field that holds a string
Null == <<"null">>

\* null, for a field that holds a number
NullNumber == -1

\* the least trimmed length of a text that is parsed
MinTextLength == 50

Digits == {"0", "1", "2", "3", "4", "5", "6", "7", "8", "9"}

Letters ==
    {"A", "B", "C", "D", "E", "F", "G", "H", "I", "J", "K", "L", "M", "N",
     "O", "P", "Q", "R", "S", "T", "U", "V", "W", "X", "Y", "Z"}

\* \s
IsSpace(c) == c \in {" ", "\n", "\t"}

DigitValue(c) ==
    CASE c = "0" -> 0 [] c = "1" -> 1 [] c = "2" -> 2 [] c = "3" -> 3
      [] c = "4" -> 4 [] c = "5" -> 5 [] c = "6" -> 6 [] c = "7" -> 7
      [] c = "8" -> 8 [] OTHER -> 9

\* String.prototype.toUpperCase
UpperChar(c) ==
    IF \E u \in Letters : LowerChar(u) = c
    THEN CHOOSE u \in Letters : LowerChar(u) = c
    ELSE c

ToUpper(s) == [k \in 1..Len(s) |-> UpperChar(s[k])]

\* String.prototype.trim
Trim(s) ==
    LET solid == {k \in 1..Len(s) : ~IsSpace(s[k])}
    IN  IF solid = {} THEN <<>>
        ELSE SubSeq(s, CHOOSE k \in solid : \A j \in solid : k <= j,
                       CHOOSE k \in solid : \A j \in solid : k >= j)

\* name.replace(/\s+/g, ' ')
RECURSIVE CollapseSpaces(_)
CollapseSpaces(s) ==
    IF Len(s) = 0 THEN <<>>
    ELSE IF IsSpace(s[1])
         THEN IF Len(s) > 1 /\ IsSpace(s[2]) THEN CollapseSpaces(Tail(s))
              ELSE <<" ">> \o CollapseSpaces(Tail(s))
         ELSE <<s[1]>> \o CollapseSpaces(Tail(s))

\* the phrase stands at position p of the text
StartsAt(text, p, phrase) ==
    /\ p >= 1
    /\ p + Len(phrase) - 1 <= Len(text)
    /\ SubSeq(text, p, p + Len(phrase) - 1) = phrase

\* String.prototype.substring(0, n)
Take(s, n) == SubSeq(s, 1, IF Len(s) < n THEN Len(s) ELSE n)

\* the positions of text at which the phrase starts
Occurrences(text, phrase) ==
    {k \in 1..(Len(text) - Len(phrase) + 1) :
        SubSeq(text, k, k + Len(phrase) - 1) = phrase}

\* the longest run of characters of the class that starts at position p
RunAt(text, p, class) ==
    LET stops == {e \in p..Len(text) : text[e] \notin class}
        end   == IF stops = {} THEN Len(text)
                 ELSE (CHOOSE e \in stops : \A j \in stops : e <= j) - 1
    IN  SubSeq(text, p, end)

\* parseFloat(run.replace(/,/g, '')) of a run of digits and commas that holds
\* a digit (amounts of the model are whole dollars)
RECURSIVE NumberOf(_)
NumberOf(run) ==
    IF Len(run) = 0 THEN 0
    ELSE LET rest == NumberOf(SubSeq(run, 1, Len(run) - 1))
             c    == run[Len(run)]
         IN  IF c = "," THEN rest ELSE 10 * rest + DigitValue(c)

\* the first match of  (phrase | phrase ...) [\s,]* ([0-9,]+) , the phrases
\* being the alternatives of one pattern: the captured run, <<>> when the
\* pattern does not match or captures no digit.  The patterns ignore case
\* (flag i): they are read on the upper-cased text; the words of a phrase are
\* separated by one space in the texts of the model.
AmountRun(text, phrases) ==
    LET at(p)  == LET skip == RunAt(text, p, {" ", "\n", "\t", ","})
                  IN  RunAt(text, p + Len(skip), Digits \cup {","})
        starts == UNION {{<<k, k + Len(phrase)>> :
                             k \in Occurrences(text, phrase)} :
                         phrase \in phrases}
        hits   == {h \in starts :
                      \E i \in 1..Len(at(h[2])) : at(h[2])[i] \in Digits}
    IN  IF hits = {} THEN <<>>
        ELSE at((CHOOSE h \in hits : \A j \in hits : h[1] <= j[1])[2])

\* the amounts the patterns capture, in rule order; NullNumber where a
\* pattern does not match
AmountsOf(text, phrases) ==
    [k \in 1..Len(phrases) |->
        IF AmountRun(text, phrases[k]) = <<>> THEN NullNumber
        ELSE NumberOf(AmountRun(text, phrases[k]))]

\* for (const pattern of patterns) { ... if (min <= amount && amount <= max)
\* { field = amount; break; } } : the first captured amount within the range
RECURSIVE FirstAmountWithin(_, _, _, _)
FirstAmountWithin(amounts, k, min, max) ==
    IF k > Len(amounts) THEN NullNumber
    ELSE IF amounts[k] # NullNumber /\ amounts[k] >= min /\ amounts[k] <= max
         THEN amounts[k]
         ELSE FirstAmountWithin(amounts, k + 1, min, max)

\* the first match of  phrase ([0-9]{min,}) : the captured digits, Null when
\* the pattern does not match
DigitsAfter(text, phrase, min) ==
    LET at(k) == RunAt(text, k + Len(phrase), Digits)
        hits  == {k \in Occurrences(text, phrase) : Len(at(k)) >= min}
    IN  IF hits = {} THEN Null
        ELSE at(CHOOSE k \in hits : \A j \in hits : k <= j)

\* pattern.exec in a loop (flag g): the captures of every match of
\* phrase ([0-9]{min,}) from position p on, each kept once
RECURSIVE AllDigitsAfter(_, _, _, _, _)
AllDigitsAfter(refs, text, phrase, min, p) ==
    LET hits == {k \in Occurrences(text, phrase) :
                    /\ k >= p
                    /\ Len(RunAt(text, k + Len(phrase), Digits)) >= min}
    IN  IF hits = {} THEN refs
        ELSE LET k   == CHOOSE k \in hits : \A j \in hits : k <= j
                 ref == RunAt(text, k + Len(phrase), Digits)
             IN  AllDigitsAfter(
                     IF \E i \in 1..Len(refs) : refs[i] = ref THEN refs
                     ELSE Append(refs, ref),
                     text, phrase, min, k + Len(phrase) + Len(ref))

\* BOOK\s+([0-9]+)\s*,?\s*PAGE\s+([0-9]+) from position p on: <<book, page,
\* the position after the match>> of the first match, <<>> when the pattern
\* does not match
BookPageOf(text, p) ==
    LET book(k)  == RunAt(text, k + 5, Digits)
        after(k) == k + 5 + Len(book(k))
        sep(k)   == IF StartsAt(text, after(k), <<","," ","P","A","G","E"," ">>)
                    THEN 7
                    ELSE IF StartsAt(text, after(k), <<" ","P","A","G","E"," ">>)
                         THEN 6 ELSE 0
        page(k)  == RunAt(text, after(k) + sep(k), Digits)
        hits     == {k \in Occurrences(text, <<"B","O","O","K"," ">>) :
                        /\ k >= p
                        /\ Len(book(k)) > 0
                        /\ sep(k) > 0
                        /\ Len(page(k)) > 0}
    IN  IF hits = {} THEN <<>>
        ELSE LET k == CHOOSE k \in hits : \A j \in hits : k <= j
             IN  <<book(k), page(k), after(k) + sep(k) + Len(page(k))>>

\* `Book ${match[1]}, Page ${match[2]}`
BookPageReference(bookPage) ==
    <<"B","o","o","k"," ">> \o bookPage[1] \o <<","," ","P","a","g","e"," ">> \o bookPage[2]

\* pattern.exec in a loop (flag g): the reference of every match of the
\* book and page pattern from position p on, each kept once
RECURSIVE AllBookPages(_, _, _)
AllBookPages(refs, text, p) ==
    LET bookPage == BookPageOf(text, p)
    IN  IF bookPage = <<>> THEN refs
        ELSE LET ref == BookPageReference(bookPage)
             IN  AllBookPages(
                     IF \E i \in 1..Len(refs) : refs[i] = ref THEN refs
                     ELSE Append(refs, ref),
                     text, bookPage[3])

\* the characters of a name: [A-Z0-9\s,\.&'-]
NameClass ==
    Letters \cup Digits \cup {" ", "\n", "\t", ",", ".", "&", "'", "-"}

\* what follows a lazily captured name: \s*[,\n] or the end of the text
EndsName(text, q) ==
    \/ q > Len(text)
    \/ \E r \in q..Len(text) :
          /\ text[r] \in {",", "\n"}
          /\ \A k \in q..(r - 1) : IsSpace(text[k])

\* the first match of  label ([A-Z][A-Z0-9\s,\.&'-]+?)(?:\s*[,\n]|$) : the
\* captured name, Null when the pattern does not match.  The pattern ignores
\* case: the match is found on the upper-cased text and the name is taken from
\* the text itself.
NameAfter(text, normalizedText, label) ==
    LET ends(k) ==
            LET p == k + Len(label)
            IN  {q \in (p + 2)..(Len(normalizedText) + 1) :
                    /\ p <= Len(normalizedText)
                    /\ normalizedText[p] \in Letters
                    /\ \A i \in (p + 1)..(q - 1) :
                          normalizedText[i] \in NameClass
                    /\ EndsName(normalizedText, q)}
        hits == {k \in Occurrences(normalizedText, label) : ends(k) # {}}
    IN  IF hits = {} THEN Null
        ELSE LET k == CHOOSE k \in hits : \A j \in hits : k <= j
                 q == CHOOSE q \in ends(k) : \A j \in ends(k) : q <= j
             IN  SubSeq(text, k + Len(label), q - 1)

\* the first match of an alternation of fixed names: the name as the text
\* writes it, Null when the text holds none of them
FirstKnown(text, normalizedText, names) ==
    LET hits == UNION {{<<k, k + Len(name) - 1>> :
                           k \in Occurrences(normalizedText, name)} :
                       name \in names}
    IN  IF hits = {} THEN Null
        ELSE LET h == CHOOSE h \in hits : \A j \in hits : h[1] <= j[1]
             IN  SubSeq(text, h[1], h[2])

\* [0-9]{1,2}[\/\-][0-9]{1,2}[\/\-][0-9]{2,4} at position p: the date, <<>>
\* when there is none
DateAt(text, p) ==
    LET month == RunAt(text, p, Digits)
        p2    == p + Len(month) + 1
        day   == RunAt(text, p2, Digits)
        p3    == p2 + Len(day) + 1
        year  == RunAt(text, p3, Digits)
    IN  IF /\ Len(month) \in 1..2
           /\ p2 - 1 <= Len(text) /\ text[p2 - 1] \in {"/", "-"}
           /\ Len(day) \in 1..2
           /\ p3 - 1 <= Len(text) /\ text[p3 - 1] \in {"/", "-"}
           /\ Len(year) >= 2
        THEN SubSeq(text, p, p3 + (IF Len(year) > 4 THEN 4 ELSE Len(year)) - 1)
        ELSE <<>>

\* the first match of  label (date) : the captured date, Null when the
\* pattern does not match
DateAfter(text, label) ==
    LET hits == {k \in Occurrences(text, label) :
                    DateAt(text, k + Len(label)) # <<>>}
    IN  IF hits = {} THEN Null
        ELSE DateAt(text, (CHOOSE k \in hits : \A j \in hits : k <= j)
                              + Len(label))

\* mutant: only an empty or absent text is refused
TooShortOnlyWhenEmpty(text) == text = NoValue \/ Len(text) = 0

\* !text || text.trim().length < 50
TooShort(text) ==
    \/ text = NoValue
    \/ Len(text) = 0
    \/ Len(Trim(text)) < MinTextLength

\* score >= 4 ? 'high' : score >= 2 ? 'medium' : 'low'
ConfidenceTier(score) ==
    IF score >= 4 THEN "high" ELSE IF score >= 2 THEN "medium" ELSE "low"

(* parseMortgageText *)

\* the info object parseMortgageText starts from
NoMortgageInfo ==
    [principalAmount |-> NullNumber, lenderName |-> Null,
     instrumentReferences |-> <<>>, isModification |-> FALSE,
     isRefinance |-> FALSE, maturityDate |-> Null,
     interestRate |-> NullNumber, propertyAddress |-> Null,
     confidence |-> "low"]

\* amountPatterns, rules 1, 2, 4 and 5, one set of alternatives each (no
\* amount of the model's texts is followed by "(" or DOLLARS, rule 3, or is
\* written with five digits in a row, rule 6)
MortgageAmountPhrases ==
    <<{<<"P","R","I","N","C","I","P","A","L"," ","S","U","M"," ","O","F"," ","$">>, <<"P","R","I","N","C","I","P","A","L"," ","A","M","O","U","N","T"," ","O","F"," ","$">>, <<"P","R","I","N","C","I","P","A","L"," ","S","U","M"," ","$">>,
       <<"P","R","I","N","C","I","P","A","L"," ","A","M","O","U","N","T"," ","$">>},
      {<<"I","N"," ","T","H","E"," ","A","M","O","U","N","T"," ","O","F"," ","$">>},
      {<<"F","A","C","E"," ","A","M","O","U","N","T"," ","O","F"," ","$">>, <<"F","A","C","E"," ","A","M","O","U","N","T"," ","$">>},
      {<<"L","O","A","N"," ","A","M","O","U","N","T"," ","O","F"," ","$">>, <<"L","O","A","N"," ","A","M","O","U","N","T"," ","$">>}>>

\* [A-Z\s,\.&'-], the characters between an institution's name and BANK
BankClass == Letters \cup {" ", "\n", "\t", ",", ".", "&", "'", "-"}

\* lenderPatterns, rule 3, for the institutions the model's texts name:
\* (WELLS\s+FARGO[A-Z\s,\.&'-]*BANK | CHASE\s+[A-Z\s,\.&'-]*BANK), the
\* greedy star reaching the last BANK of the run; Null when neither matches
KnownLender(text, normalizedText) ==
    LET bank        == <<"B","A","N","K">>
        last(k, n)  ==
            LET run  == RunAt(normalizedText, k + n, BankClass)
                ends == {e \in Len(bank)..Len(run) :
                            SubSeq(run, e - Len(bank) + 1, e) = bank}
            IN  IF ends = {} THEN 0
                ELSE k + n - 1 + (CHOOSE e \in ends : \A j \in ends : e >= j)
        starts      ==
            UNION {{<<k, last(k, Len(name))>> :
                       k \in Occurrences(normalizedText, name)} :
                   name \in {<<"W","E","L","L","S"," ","F","A","R","G","O">>, <<"C","H","A","S","E"," ">>}}
        hits        == {h \in starts : h[2] > 0}
    IN  IF hits = {} THEN Null
        ELSE LET h == CHOOSE h \in hits : \A j \in hits : h[1] <= j[1]
             IN  SubSeq(text, h[1], h[2])

\* /^(THE|AND|FOR|THIS|THAT)$/i
StopWords == {<<"T","H","E">>, <<"A","N","D">>, <<"F","O","R">>, <<"T","H","I","S">>, <<"T","H","A","T">>}

\* lenderPatterns, rule 4: ([A-Z][A-Z\s&'-]+,?\s*N\.?A\.?) : a letter, the
\* longest run of [A-Z\s&'-] after which the rest matches, then an optional
\* comma, spaces, N, an optional dot, A and an optional dot; Null when the
\* pattern does not match
NationalAssociation(text, normalizedText) ==
    LET t        == normalizedText
        is(p, c) == p <= Len(t) /\ t[p] = c
        rest(p)  ==
            LET p1 == IF is(p, ",") THEN p + 1 ELSE p
                p2 == p1 + Len(RunAt(t, p1, {" ", "\n", "\t"}))
                p3 == IF is(p2 + 1, ".") THEN p2 + 2 ELSE p2 + 1
            IN  IF is(p2, "N") /\ is(p3, "A")
                THEN IF is(p3 + 1, ".") THEN p3 + 1 ELSE p3
                ELSE 0
        run(k)   == RunAt(t, k + 1, Letters \cup {" ", "\n", "\t", "&", "'", "-"})
        cuts(k)  == {i \in 1..Len(run(k)) : rest(k + 1 + i) > 0}
        hits     == {k \in 1..Len(t) : t[k] \in Letters /\ cuts(k) # {}}
    IN  IF hits = {} THEN Null
        ELSE LET k == CHOOSE k \in hits : \A j \in hits : k <= j
                 i == CHOOSE i \in cuts(k) : \A j \in cuts(k) : i >= j
             IN  SubSeq(text, k, rest(k + 1 + i))

\* for (const pattern of lenderPatterns) { ... if (kept) { field = name;
\* break; } } : the first kept name, cleaned, in rule order
RECURSIVE FirstKept(_, _, _)
FirstKept(names, k, stopWords) ==
    IF k > Len(names) THEN Null
    ELSE LET name == IF names[k] = Null THEN Null
                     ELSE CollapseSpaces(Trim(names[k]))
         IN  IF /\ name # Null
                /\ Len(name) > 3
                /\ ToUpper(name) \notin stopWords
             THEN name
             ELSE FirstKept(names, k + 1, stopWords)

\* lenderPatterns, rules 1, 3 and 4 (the texts of the model hold no
\* "MORTGAGEE" and no "IN FAVOR OF", rule 2); name.length > 3 and no stop word
MortgageLender(text, normalizedText) ==
    FirstKept(<<NameAfter(text, normalizedText, <<"L","E","N","D","E","R",":"," ">>),
                KnownLender(text, normalizedText),
                NationalAssociation(text, normalizedText)>>,
              1, StopWords)

\* (?:INTEREST\s+RATE|RATE\s+OF)\s*[:\s]+([0-9]+\.?[0-9]*)\s*% with a whole
\* number of percent
MortgageRate(text) ==
    LET label == <<"I","N","T","E","R","E","S","T"," ","R","A","T","E",":"," ">>
        at(k) == RunAt(text, k + Len(label), Digits)
        hits  == {k \in Occurrences(text, label) :
                     /\ Len(at(k)) > 0
                     /\ k + Len(label) + Len(at(k)) <= Len(text)
                     /\ text[k + Len(label) + Len(at(k))] = "%"}
    IN  IF hits = {} THEN NullNumber
        ELSE NumberOf(at(CHOOSE k \in hits : \A j \in hits : k <= j))

\* if (info.principalAmount) += 3; if (info.lenderName) += 2;
\* if (info.interestRate) += 1; if (info.maturityDate) += 1
MortgageConfidenceScore(info) ==
      (IF info.principalAmount # NullNumber /\ info.principalAmount # 0
       THEN 3 ELSE 0)
    + (IF info.lenderName # Null /\ info.lenderName # <<>> THEN 2 ELSE 0)
    + (IF info.interestRate # NullNumber /\ info.interestRate # 0
       THEN 1 ELSE 0)
    + (IF info.maturityDate # Null /\ info.maturityDate # <<>> THEN 1 ELSE 0)

\* refPatterns: every instrument number, then every book and page, then every
\* CFN, then every document number, each reference once
MortgageReferences(normalizedText) ==
    LET instruments ==
            AllDigitsAfter(<<>>, normalizedText, <<"I","N","S","T","R","U","M","E","N","T"," ","N","O","."," ">>, 6, 1)
        bookPages   == AllBookPages(instruments, normalizedText, 1)
        cfns        == AllDigitsAfter(bookPages, normalizedText, <<"C","F","N"," ">>, 6, 1)
    IN  AllDigitsAfter(cfns, normalizedText, <<"D","O","C","U","M","E","N","T"," ","N","O","."," ">>, 6, 1)

parseMortgageText(text) ==
    IF TooShort(text) THEN NoMortgageInfo
    ELSE LET normalizedText == ToUpper(text)
             found ==
                 [NoMortgageInfo EXCEPT
                     !.principalAmount =
                         FirstAmountWithin(
                             AmountsOf(normalizedText, MortgageAmountPhrases),
                             1, 10000, 50000000),
                     !.lenderName = MortgageLender(text, normalizedText),
                     !.instrumentReferences =
                         MortgageReferences(normalizedText),
                     !.isModification =
                         Includes(normalizedText, <<"M","O","D","I","F","I","C","A","T","I","O","N">>),
                     !.isRefinance = Includes(normalizedText, <<"R","E","F","I","N","A","N","C">>),
                     !.interestRate = MortgageRate(normalizedText),
                     !.maturityDate =
                         DateAfter(normalizedText, <<"M","A","T","U","R","I","T","Y"," ","D","A","T","E",":"," ">>)]
         IN  [found EXCEPT !.confidence =
                              ConfidenceTier(MortgageConfidenceScore(found))]

\* for (const pattern of patterns) { ... if (amount >= min) { field = amount;
\* break; } } : the first captured amount of at least min
RECURSIVE FirstAmountFrom(_, _, _)
FirstAmountFrom(amounts, k, min) ==
    IF k > Len(amounts) THEN NullNumber
    ELSE IF amounts[k] # NullNumber /\ amounts[k] >= min THEN amounts[k]
         ELSE FirstAmountFrom(amounts, k + 1, min)

(* parseDeedText *)

\* the info object parseDeedText starts from
NoDeedInfo ==
    [consideration |-> NullNumber, legalDescription |-> Null,
     propertyAddress |-> Null, deedType |-> Null, grantors |-> <<>>,
     grantees |-> <<>>, confidence |-> "low"]

\* considerationPatterns, rules 1, 2 and 3 (the texts of the model name no
\* documentary stamps, rule 4 and the stamp computation)
DeedAmountPhrases ==
    <<{<<"F","O","R"," ","A","N","D"," ","I","N"," ","C","O","N","S","I","D","E","R","A","T","I","O","N"," ","O","F"," ","$">>},
      {<<"C","O","N","S","I","D","E","R","A","T","I","O","N"," ","O","F"," ","$">>, <<"C","O","N","S","I","D","E","R","A","T","I","O","N"," ","$">>},
      {<<"S","U","M"," ","O","F"," ","$">>}>>

\* legalPatterns, rule 1: (LOT\s+[0-9A-Z]+,?\s*(?:OF\s+)?BLOCK\s+[0-9A-Z]+[^.]*)
\* and rule 4: PARCEL\s+ID\s*:?\s*([0-9-]+); Null when neither matches (the
\* texts of the model name no unit and no section, rules 2 and 3).  The
\* patterns ignore case: the match is found on the upper-cased text and the
\* description is taken from the text itself.
DeedLegalDescription(text, normalizedText) ==
    LET t         == normalizedText
        token(p)  == RunAt(t, p, Letters \cup Digits)
        block(k)  == LET lot  == token(k + 4)
                         p    == k + 4 + Len(lot)
                         sep  == IF StartsAt(t, p, <<","," ","B","L","O","C","K"," ">>)
                                 THEN 8
                                 ELSE IF StartsAt(t, p, <<" ","B","L","O","C","K"," ">>)
                                      THEN 7 ELSE 0
                     IN  IF Len(lot) > 0 /\ sep > 0
                            /\ Len(token(p + sep)) > 0
                         THEN p + sep ELSE 0
        lots      == {k \in Occurrences(t, <<"L","O","T"," ">>) : block(k) > 0}
        parcel(k) == RunAt(t, k + 11, Digits \cup {"-"})
        parcels   == {k \in Occurrences(t, <<"P","A","R","C","E","L"," ","I","D",":"," ">>) :
                         Len(parcel(k)) > 0}
    IN  IF lots # {}
        THEN LET k    == CHOOSE k \in lots : \A j \in lots : k <= j
                 dots == {d \in k..Len(t) : t[d] = "."}
                 end  == IF dots = {} THEN Len(t)
                         ELSE (CHOOSE d \in dots : \A j \in dots : d <= j) - 1
             IN  Take(Trim(SubSeq(text, k, end)), 200)
        ELSE IF parcels # {}
        THEN Take(Trim(parcel(CHOOSE k \in parcels :
                                  \A j \in parcels : k <= j)), 200)
        ELSE Null

\* the if / else-if chain on the phrases of the deed type
DeedType(normalizedText) ==
    IF Includes(normalizedText, <<"W","A","R","R","A","N","T","Y"," ","D","E","E","D">>) THEN <<"W","A","R","R","A","N","T","Y">>
    ELSE IF \/ Includes(normalizedText, <<"Q","U","I","T"," ","C","L","A","I","M">>)
            \/ Includes(normalizedText, <<"Q","U","I","T","C","L","A","I","M">>) THEN <<"Q","U","I","T"," ","C","L","A","I","M">>
    ELSE IF Includes(normalizedText, <<"S","P","E","C","I","A","L"," ","W","A","R","R","A","N","T","Y">>)
         THEN <<"S","P","E","C","I","A","L"," ","W","A","R","R","A","N","T","Y">>
    ELSE IF Includes(normalizedText, <<"T","A","X"," ","D","E","E","D">>) THEN <<"T","A","X"," ","D","E","E","D">>
    ELSE IF Includes(normalizedText, <<"P","E","R","S","O","N","A","L"," ","R","E","P","R","E","S","E","N","T","A","T","I","V","E">>)
         THEN <<"P","R"," ","D","E","E","D">>
    ELSE IF Includes(normalizedText, <<"T","R","U","S","T","E","E">>) THEN <<"T","R","U","S","T","E","E"," ","D","E","E","D">>
    ELSE Null

\* if (info.consideration) += 2; if (info.legalDescription) += 2;
\* if (info.deedType) += 1
DeedConfidenceScore(info) ==
      (IF info.consideration # NullNumber /\ info.consideration # 0
       THEN 2 ELSE 0)
    + (IF info.legalDescription # Null /\ info.legalDescription # <<>>
       THEN 2 ELSE 0)
    + (IF info.deedType # Null THEN 1 ELSE 0)

parseDeedText(text) ==
    IF TooShort(text) THEN NoDeedInfo
    ELSE LET normalizedText == ToUpper(text)
             found ==
                 [NoDeedInfo EXCEPT
                     !.consideration =
                         FirstAmountFrom(
                             AmountsOf(normalizedText, DeedAmountPhrases),
                             1, 1000),
                     !.legalDescription =
                         DeedLegalDescription(text, normalizedText),
                     !.deedType = DeedType(normalizedText)]
         IN  [found EXCEPT !.confidence =
                              ConfidenceTier(DeedConfidenceScore(found))]

(* parseSatisfactionText *)

\* the info object parseSatisfactionText starts from
NoSatisfactionInfo ==
    [satisfiedInstrumentNumber |-> Null, satisfiedBookPage |-> Null,
     originalLender |-> Null, originalAmount |-> NullNumber,
     satisfiedDate |-> Null, confidence |-> "low"]

\* mutant: the loop has no break, every pattern that matches sets its field
SatisfactionReferenceNoBreak(text) ==
    LET instrument == DigitsAfter(text, <<"I","N","S","T","R","U","M","E","N","T"," ","N","O","."," ">>, 6)
        bookPage   == BookPageOf(text, 1)
        cfn        == DigitsAfter(text, <<"C","F","N"," ">>, 6)
    IN  [instrument |-> IF cfn # Null THEN cfn ELSE instrument,
         bookPage   |-> IF bookPage # <<>> THEN BookPageReference(bookPage)
                        ELSE Null]

\* for (const pattern of instrumentPatterns) { ...; break; } : the reference
\* of the first pattern, in rule order, that matches
SatisfactionReference(text) ==
    LET instrument == DigitsAfter(text, <<"I","N","S","T","R","U","M","E","N","T"," ","N","O","."," ">>, 6)
        bookPage   == BookPageOf(text, 1)
        cfn        == DigitsAfter(text, <<"C","F","N"," ">>, 6)
    IN  IF instrument # Null
        THEN [instrument |-> instrument, bookPage |-> Null]
        ELSE IF bookPage # <<>>
        THEN [instrument |-> Null, bookPage |-> BookPageReference(bookPage)]
        ELSE [instrument |-> cfn, bookPage |-> Null]

\* lenderPatterns, rule 3: the institutions of the closed list that the
\* model's texts name
KnownOriginalLenders == {<<"W","E","L","L","S"," ","F","A","R","G","O">>, <<"C","H","A","S","E">>}

\* lenderPatterns, rules 2 and 3 (the texts of the model hold no "MADE" and
\* no "EXECUTED", rule 1); name.length > 3
SatisfactionLender(text, normalizedText) ==
    FirstKept(<<NameAfter(text, normalizedText, <<"L","E","N","D","E","R",":"," ">>),
                FirstKnown(text, normalizedText, KnownOriginalLenders)>>,
              1, {})

\* amountPatterns, rule 1 (no amount of the model's texts is followed by
\* MORTGAGE or LOAN, rule 2)
SatisfactionAmountPhrases ==
    <<{<<"O","R","I","G","I","N","A","L"," ","A","M","O","U","N","T"," ","O","F"," ","$">>, <<"O","R","I","G","I","N","A","L"," ","S","U","M"," ","O","F"," ","$">>, <<"P","R","I","N","C","I","P","A","L"," ","A","M","O","U","N","T"," ","O","F"," ","$">>,
       <<"P","R","I","N","C","I","P","A","L"," ","S","U","M"," ","O","F"," ","$">>, <<"O","R","I","G","I","N","A","L"," ","A","M","O","U","N","T",":"," ","$">>, <<"P","R","I","N","C","I","P","A","L"," ","A","M","O","U","N","T",":"," ","$">>}>>

\* if (info.satisfiedInstrumentNumber || info.satisfiedBookPage) += 3;
\* if (info.originalLender) += 2; if (info.originalAmount) += 1
SatisfactionConfidenceScore(info) ==
      (IF \/ info.satisfiedInstrumentNumber # Null
          \/ info.satisfiedBookPage # Null THEN 3 ELSE 0)
    + (IF info.originalLender # Null /\ info.originalLender # <<>>
       THEN 2 ELSE 0)
    + (IF info.originalAmount # NullNumber /\ info.originalAmount # 0
       THEN 1 ELSE 0)

parseSatisfactionText(text) ==
    IF TooShort(text) THEN NoSatisfactionInfo
    ELSE LET normalizedText == ToUpper(text)
             reference      == SatisfactionReference(normalizedText)
             found ==
                 [NoSatisfactionInfo EXCEPT
                     !.satisfiedInstrumentNumber = reference.instrument,
                     !.satisfiedBookPage = reference.bookPage,
                     !.originalLender =
                         SatisfactionLender(text, normalizedText),
                     !.originalAmount =
                         FirstAmountFrom(
                             AmountsOf(normalizedText,
                                       SatisfactionAmountPhrases),
                             1, 10000),
                     !.satisfiedDate =
                         DateAfter(normalizedText, <<"D","A","T","E","D",":"," ">>)]
         IN  [found EXCEPT !.confidence =
                              ConfidenceTier(
                                  SatisfactionConfidenceScore(found))]

-----------------------------------------------------------------------------
(* The registry and its PDFs: the inputs of the model *)

T0 == 18518 * SecondsPerDay

Days(n) == n * SecondsPerDay

nSmith == <<"S","M","I","T","H"," ","J","O","H","N">>
nDoe   == <<"D","O","E"," ","J","A","N","E">>

lWellsFargoBank == <<"W","E","L","L","S"," ","F","A","R","G","O"," ","B","A","N","K">>
lWellsFargo     == <<"W","E","L","L","S"," ","F","A","R","G","O">>
lChaseBank      == <<"C","H","A","S","E"," ","B","A","N","K">>

tDeed    == <<"(","D",")"," ","D","E","E","D">>
tMtg     == <<"(","M","T","G",")"," ","M","O","R","T","G","A","G","E">>
tSat     == <<"(","S","A","T",")"," ","S","A","T","I","S","F","A","C","T","I","O","N">>
tLien    == <<"(","L","N",")"," ","L","I","E","N">>
tLisPend == <<"(","L","P",")"," ","L","I","S"," ","P","E","N","D","E","N","S">>
tJud     == <<"(","J","U","D",")"," ","J","U","D","G","M","E","N","T">>
tRel     == <<"(","R","E","L",")"," ","R","E","L","E","A","S","E">>
tMod     == <<"(","M","O","D",")"," ","M","O","D","I","F","I","C","A","T","I","O","N">>
tTaxDeed == <<"(","T","A","X","D","E","E","D",")"," ","T","A","X"," ","D","E","E","D">>
tBare    == <<"D","E","E","D">>
tMtgRev  == <<"(","M","T","G","R","E","V",")"," ","R","E","V","E","R","S","E">>
tSatCorp == <<"(","S","A","T","C","O","R","P","T","X",")"," ","T","A","X">>

\* a raw record of the registry
Rec(instrument, partiesOne, recordDate, docType, id, book, page) ==
    [Instrument |-> instrument, PartiesOne |-> partiesOne,
     PartiesTwo |-> NoList, RecordDate |-> recordDate, DocType |-> docType,
     ID |-> id, BookNum |-> book, PageNum |-> page]

MtgData(principal, lender) ==
    [NoExtractedData EXCEPT !.principalAmount = principal,
                            !.lenderName = lender]

SatData(instrument, bookPage, amount, lender) ==
    [NoExtractedData EXCEPT !.satisfiedInstrumentNumber = instrument,
                            !.satisfiedBookPage = bookPage,
                            !.originalAmount = amount,
                            !.originalLender = lender]

\* the PDF behind each document ID
PdfStore(id) ==
    CASE id = 201 -> PdfText(MtgData(200000, lWellsFargoBank))
      [] id = 203 -> PdfText(MtgData(300000, lChaseBank))
      [] id = 211 -> PdfText(SatData(StringOf(100001), NoValue, 0, NoValue))
      [] id = 212 -> PdfText(SatData(StringOf(100002), NoValue, 0, NoValue))
      [] id = 213 -> PdfText(SatData(NoValue, BookPageRef(56, 78), 300000,
                                     lChaseBank))
      [] id = 214 -> PdfText(SatData(NoValue, NoValue, 201000, lWellsFargo))
      [] id = 215 -> PdfThrows
      [] id = 216 -> PdfError
      [] OTHER -> PdfNoText

\* the texts handed to the parsers: sentences the patterns read, behind
\* leading spaces and followed by filler up to a trimmed length around the
\* minimum
MaxLead == 1

MaxOver == 1

Sentences ==
    {<<"P","R","I","N","C","I","P","A","L"," ","A","M","O","U","N","T"," ","O","F"," ","$","2","0","0",",","0","0","0",".">>,
     <<"L","E","N","D","E","R",":"," ","W","E","L","L","S"," ","F","A","R","G","O"," ","B","A","N","K",","," ","I","N","T","E","R","E","S","T"," ","R","A","T","E",":"," ","0","%",".">>,
     <<"I","N","T","E","R","E","S","T"," ","R","A","T","E",":"," ","5","%","."," ","M","A","T","U","R","I","T","Y"," ","D","A","T","E",":"," ","0","1","/","1","5","/","2","0","5","0",".">>,
     <<"I","N","S","T","R","U","M","E","N","T"," ","N","O","."," ","1","0","0","0","0","1","."," ","B","O","O","K"," ","1","2",","," ","P","A","G","E"," ","3","4",".">>,
     <<"B","O","O","K"," ","1","2",","," ","P","A","G","E"," ","3","4","."," ","O","R","I","G","I","N","A","L"," ","A","M","O","U","N","T"," ","O","F"," ","$","2","0","0",",","0","0","0",".">>,
     <<"W","A","R","R","A","N","T","Y"," ","D","E","E","D","."," ","C","O","N","S","I","D","E","R","A","T","I","O","N"," ","O","F"," ","$","2","5","0",",","0","0","0",".">>,
     <<"L","O","T"," ","5",","," ","B","L","O","C","K"," ","2","."," ","S","U","M"," ","O","F"," ","$","9","0","0",".">>,
     <<"L","e","n","d","e","r",":"," ","C","h","a","s","e"," ","B","a","n","k",","," ","d","a","t","e","d",":"," ","3","/","4","/","2","0","1","9",".">>,
     <<"P","A","Y","A","B","L","E"," ","T","O"," ","C","H","A","S","E"," ","H","O","M","E"," ","B","A","N","K","."," ","C","F","N"," ","1","2","3","4","5","6",".">>,
     <<"I","N","T","E","R","E","S","T"," ","R","A","T","E",":"," ","0","%","."," ","M","A","T","U","R","I","T","Y"," ","D","A","T","E",":"," ","0","1","/","1","5","/","2","0","5","0",".">>,
     <<"B","O","O","K"," ","1","2",","," ","P","A","G","E"," ","3","4","."," ","I","N","S","T","R","U","M","E","N","T"," ","N","O","."," ","1","0","0","0","0","1",".">>}

Filler(n) == [k \in 1..n |-> "X"]

Spaces(n) == [k \in 1..n |-> " "]

\* the sentence behind lead spaces, filled up to the trimmed length total
TextOf(sentence, lead, total) ==
    Spaces(lead) \o sentence \o Filler(total - Len(sentence))

\* NoValue is an absent text (undefined or null)
Texts ==
    {NoValue, <<>>}
    \cup {TextOf(sentence, lead, total) :
             sentence \in Sentences, lead \in 0..MaxLead,
             total \in {0} \cup (MinTextLength - 1)..(MinTextLength + MaxOver)}

\* records for classification, chain of title and flags
GroupRecords ==
    {Rec(1, <<nSmith>>, T0, tDeed, 101, 0, 0),
     Rec(2, <<nSmith>>, T0, tDeed, 102, 0, 0),
     Rec(3, <<nDoe>>, T0 + 1, tDeed, 103, 0, 0),
     Rec(4, <<nDoe>>, T0 + Days(30), tDeed, 104, 0, 0),
     Rec(5, <<nDoe>>, T0 + Days(90), tDeed, 105, 0, 0),
     Rec(6, <<nSmith>>, T0 + Days(30), tMtg, 106, 0, 0),
     Rec(7, <<nSmith>>, T0, tTaxDeed, 107, 0, 0),
     Rec(8, <<nSmith>>, T0, tMod, 108, 0, 0),
     Rec(9, <<nSmith>>, T0, tBare, 109, 0, 0),
     Rec(10, NoList, T0 + Days(30), NoValue, 110, 0, 0),
     Rec(11, <<nSmith>>, T0 + Days(30), tLisPend, 111, 0, 0)}

\* records for name-only matching
AnalyzeRecords ==
    {Rec(21, <<nSmith>>, T0, tMtg, 121, 0, 0),
     Rec(22, <<nSmith>>, T0 + Days(60), tMtg, 122, 0, 0),
     Rec(24, NoList, T0, tMtg, 124, 0, 0),
     Rec(25, <<nSmith>>, T0 + Days(30), tSat, 125, 0, 0),
     Rec(26, <<nDoe>>, T0 + Days(30), tSat, 126, 0, 0),
     Rec(27, <<nSmith, nDoe>>, T0 + Days(90), tSat, 127, 0, 0),
     Rec(29, <<nSmith>>, T0, tLien, 129, 0, 0),
     Rec(30, <<nSmith>>, T0 + Days(30), tRel, 130, 0, 0)}

\* records for multi-signal matching
MatchRecords ==
    {Rec(100001, <<nSmith>>, T0, tMtg, 201, 12, 34),
     Rec(100002, <<nDoe>>, T0 + Days(60), tMtg, 202, 0, 0),
     Rec(100003, <<nDoe>>, T0 + Days(60), tMtg, 203, 56, 78),
     Rec(100011, <<nSmith>>, T0 + Days(30), tSat, 211, 0, 0),
     Rec(100012, <<nSmith>>, T0 + Days(30), tSat, 212, 0, 0),
     Rec(100013, <<nDoe>>, T0 + Days(90), tSat, 213, 0, 0),
     Rec(100014, <<nSmith>>, T0 + Days(30), tSat, 214, 0, 0),
     Rec(100015, <<nSmith>>, T0 + Days(90), tSat, 215, 0, 0),
     Rec(100016, <<nDoe>>, T0 + Days(90), tSat, 216, 0, 0)}

\* records for the order of matching: two satisfactions compete for the
\* first mortgage, one by its instrument number, one by amount and lender
GreedyRecords ==
    {Rec(100001, <<nSmith>>, T0, tMtg, 201, 12, 34),
     Rec(100003, <<nDoe>>, T0 + Days(60), tMtg, 203, 56, 78),
     Rec(100011, <<nSmith>>, T0 + Days(30), tSat, 211, 0, 0),
     Rec(100013, <<nDoe>>, T0 + Days(90), tSat, 213, 0, 0),
     Rec(100014, <<nSmith>>, T0 + Days(30), tSat, 214, 0, 0)}

\* records for the counts of the mortgage analysis: every mortgage and
\* satisfaction code family, matches of each confidence
ModesRecords ==
    {Rec(100001, <<nSmith>>, T0, tMtg, 201, 12, 34),
     Rec(100003, <<nDoe>>, T0 + Days(60), tMtgRev, 203, 56, 78),
     Rec(100011, <<nSmith>>, T0 + Days(30), tSat, 211, 0, 0),
     Rec(100013, <<nDoe>>, T0 + Days(90), tSatCorp, 213, 0, 0),
     Rec(100014, <<nSmith>>, T0 + Days(30), tSat, 214, 0, 0)}

\* records for the report of unmatched documents: two satisfactions
\* were returned without an Instrument
UnmatchedRecords ==
    {Rec(100001, <<nSmith>>, T0, tMtg, 201, 12, 34),
     Rec(100002, <<nDoe>>, T0 + Days(60), tMtg, 202, 0, 0),
     Rec(0, <<nSmith>>, T0 + Days(30), tSat, 211, 0, 0),
     Rec(0, <<nDoe>>, T0 + Days(90), tSat, 216, 0, 0),
     Rec(100015, <<nSmith>>, T0 + Days(90), tSat, 215, 0, 0)}

\* records for liens and releases: releases recorded before and after the
\* liens, under the liens' names and under another name
LienRecords ==
    {Rec(61, <<nSmith>>, T0 + Days(30), tLien, 161, 0, 0),
     Rec(62, <<nSmith, nDoe>>, T0 + Days(30), tLien, 162, 0, 0),
     Rec(63, <<nSmith>>, T0, tRel, 163, 0, 0),
     Rec(64, <<nDoe>>, T0 + Days(60), tRel, 164, 0, 0),
     Rec(65, <<nSmith>>, T0 + Days(60), tRel, 165, 0, 0)}

\* records for the summary and the risk level
RiskRecords ==
    {Rec(41, <<nSmith>>, T0, tDeed, 141, 0, 0),
     Rec(42, <<nSmith>>, T0 + Days(30), tDeed, 142, 0, 0),
     Rec(43, <<nSmith>>, T0 + Days(90), tDeed, 143, 0, 0),
     Rec(44, <<nSmith>>, T0, tMtg, 144, 0, 0),
     Rec(45, <<nDoe>>, T0, tMtg, 145, 0, 0),
     Rec(46, <<nSmith>>, T0 + Days(30), tSat, 146, 0, 0),
     Rec(47, <<nSmith>>, T0, tLien, 147, 0, 0),
     Rec(48, <<nSmith>>, T0 + Days(30), tRel, 148, 0, 0),
     Rec(49, <<nSmith>>, T0, tLisPend, 149, 0, 0),
     Rec(50, <<nSmith>>, T0, tJud, 150, 0, 0),
     Rec(51, NoList, T0, NoValue, 151, 0, 0)}

\* the mortgages of a scored pair: with and without instrument number,
\* grantor, book and page, extracted principal and lender
PairMortgages ==
    {[parseRecord(Rec(instrument, partiesOne, T0, tMtg, 201,
                      bookPage[1], bookPage[2]), 1)
          EXCEPT !.extractedData = MtgData(principal, lender)] :
        instrument \in {0, 100001},
        partiesOne \in {NoList, <<nSmith>>},
        bookPage \in {<<0, 0>>, <<12, 34>>},
        principal \in {0, 200000},
        lender \in {NoValue, lWellsFargoBank, lChaseBank}}

\* the satisfactions of a scored pair: the extracted reference names the
\* mortgage, another one, or nothing; the amount is the principal, 1% off,
\* less than 1% off; recorded before, with and after the mortgage
PairSatisfactions ==
    {[parseRecord(Rec(100011, partiesOne, recordDate, tSat, 211, 0, 0), 2)
          EXCEPT !.extractedData = SatData(instrument, bookPage, amount,
                                           lender)] :
        partiesOne \in {NoList, <<nSmith>>, <<nDoe>>},
        recordDate \in {T0 - Days(1), T0, T0 + Days(1)},
        instrument \in {NoValue, StringOf(100001), StringOf(100002)},
        bookPage \in {NoValue, BookPageRef(12, 34), BookPageRef(1234, 5),
                      BookPageRef(12, 35)},
        amount \in {0, 200000, 198001, 198000, 202000},
        lender \in {NoValue, lWellsFargo, lChaseBank}}

\* every list of at most max records of the set R
ResultLists(R, max) == UNION {[1..n -> R] : n \in 0..max}

\* the ways a search is run: <<program, params.scanDocuments>>
Unscanned == {<<"node", FALSE>>, <<"pages", FALSE>>}
Scanned   == {<<"node", TRUE>>}

-----------------------------------------------------------------------------
(* The search: performTitleSearch (node) and onRequestPost (pages) *)

EmptyAnalysis ==
    [total |-> 0, satisfied |-> 0, open |-> <<>>, satisfiedList |-> <<>>,
     unmatchedSatisfactions |-> <<>>]

NoSummary ==
    [totalDocuments |-> 0, chainOfTitleLength |-> 0, totalMortgages |-> 0,
     satisfiedMortgages |-> 0, openMortgages |-> 0, openLiens |-> 0,
     highSeverityFlags |-> 0, mediumSeverityFlags |-> 0, riskLevel |-> "none"]

NoMatchResults ==
    [matches |-> <<>>, unmatchedMortgages |-> <<>>,
     unmatchedSatisfactions |-> <<>>]

\* no parser has been called
NoInfo == [confidence |-> "none"]

\* the matcher's loop is not observed
NoLoop ==
    /\ loopSat = NoValue
    /\ loopMtg = NoValue
    /\ loopScore = 0

\* the module was loaded, no OCR call was made
NoOcr ==
    /\ tesseractWorker = 0
    /\ tesseractLoading = FALSE
    /\ workers = <<>>
    /\ calls = <<>>

InitWith(R, max, runs) ==
    /\ \E run \in runs : impl = run[1] /\ scanDocuments = run[2]
    /\ results \in ResultLists(R, max)
    /\ pc = "parse"
    /\ documents = <<>>
    /\ grouped = [k \in GroupKeys(impl) |-> <<>>]
    /\ chainOfTitle = <<>>
    /\ mortgageAnalysis = EmptyAnalysis
    /\ scanResults = EmptyScanResults
    /\ matchResults = NoMatchResults
    /\ openLiens = <<>>
    /\ flags = <<>>
    /\ summary = NoSummary
    /\ docText = NoValue
    /\ parsedInfo = NoInfo
    /\ NoLoop
    /\ NoOcr

\* const documents = results.map(parseRecord)
ParseRecords ==
    /\ pc = "parse"
    /\ documents' = [k \in 1..Len(results) |-> parseRecord(results[k], k)]
    /\ pc' = "group"
    /\ UNCHANGED <<parserVars, loopVars, ocrVars>>
    /\ UNCHANGED <<matchResults, impl, scanDocuments, results, grouped, chainOfTitle,
                   mortgageAnalysis, scanResults, openLiens, flags, summary>>

\* const grouped = groupByDocType(documents)
GroupByDocType ==
    /\ pc = "group"
    /\ grouped' = groupByDocType(documents, impl)
    /\ pc' = "chain"
    /\ UNCHANGED <<parserVars, loopVars, ocrVars>>
    /\ UNCHANGED <<matchResults, impl, scanDocuments, results, documents, chainOfTitle,
                   mortgageAnalysis, scanResults, openLiens, flags, summary>>

\* const chainOfTitle = buildChainOfTitle(grouped.deeds || [])
BuildChainOfTitle ==
    /\ pc = "chain"
    /\ chainOfTitle' = buildChainOfTitle(grouped["deeds"])
    /\ pc' = "analyze"
    /\ UNCHANGED <<parserVars, loopVars, ocrVars>>
    /\ UNCHANGED <<matchResults, impl, scanDocuments, results, documents, grouped,
                   mortgageAnalysis, scanResults, openLiens, flags, summary>>

\* const docsToScan = [...grouped.mortgages, ...grouped.satisfactions]
DocsToScan == grouped["mortgages"] \o grouped["satisfactions"]

\* batchExtractDocuments(docs): the results after the loop over docs
RECURSIVE batchExtractDocuments(_)
batchExtractDocuments(docs) ==
    IF Len(docs) = 0 THEN EmptyScanResults
    ELSE LET doc == docs[Len(docs)]
         IN  ExtractOne(batchExtractDocuments(SubSeq(docs, 1, Len(docs) - 1)),
                        doc, PdfStore(doc.documentId))

\* mortgageAnalysis = analyzeMortgages(grouped.mortgages, grouped.satisfactions)
\* and the test that guards the optional PDF scanning
AnalyzeMortgages ==
    /\ pc = "analyze"
    /\ mortgageAnalysis' =
           IF impl = "node"
           THEN analyzeMortgages(grouped["mortgages"], grouped["satisfactions"])
           ELSE analyzeMortgagesByName(grouped["mortgages"],
                                       grouped["satisfactions"])
    /\ pc' = IF impl = "node" /\ scanDocuments /\ Len(DocsToScan) > 0
             THEN "scan" ELSE "liens"
    /\ UNCHANGED <<parserVars, loopVars, ocrVars>>
    /\ UNCHANGED <<matchResults, impl, scanDocuments, results, documents, grouped,
                   chainOfTitle, scanResults, openLiens, flags, summary>>

\* mutant: the batch returns as soon as one document is extracted
BatchDoneAfterFirst(res, docs) == res.scanned >= 1

\* for (let i = 0; i < documents.length; i++): the loop is over, and the
\* awaited batchExtractDocuments returns, when every document was handled
BatchDone(res, docs) == res.scanned = Len(docs)

\* one iteration of the loop of batchExtractDocuments: the extraction of the
\* next document is awaited and recorded
ExtractDocument ==
    /\ pc = "scan"
    /\ scanResults.scanned < Len(DocsToScan)
    /\ LET doc == DocsToScan[scanResults.scanned + 1]
       IN  scanResults' = ExtractOne(scanResults, doc, PdfStore(doc.documentId))
    /\ pc' = IF BatchDone(scanResults', DocsToScan) THEN "match" ELSE "scan"
    /\ UNCHANGED <<parserVars, loopVars, ocrVars>>
    /\ UNCHANGED <<matchResults, impl, scanDocuments, results, documents, grouped,
                   chainOfTitle, mortgageAnalysis, openLiens, flags, summary>>

scannedMortgages == ScannedOfType(scanResults.documents, cMTG)

scannedSatisfactions == ScannedOfType(scanResults.documents, cSAT)

\* after the batch returned: the mortgages are re-analysed with the
\* extracted data
MatchScanned ==
    /\ pc = "match"
    /\ matchResults' = matchSatisfactionsToMortgages(scannedMortgages,
                                                     scannedSatisfactions)
    /\ mortgageAnalysis' =
           ScannedAnalysis(Len(grouped["mortgages"]), matchResults')
    /\ pc' = "liens"
    /\ UNCHANGED <<parserVars, loopVars, ocrVars>>
    /\ UNCHANGED <<impl, scanDocuments, results, documents, grouped,
                   chainOfTitle, scanResults, openLiens, flags, summary>>

\* const openLiens = identifyOpenLiens(grouped.liens, grouped.releases)
IdentifyOpenLiens ==
    /\ pc = "liens"
    /\ openLiens' =
           IF impl = "node"
           THEN identifyOpenLiens(grouped["liens"], grouped["releases"])
           ELSE identifyOpenLiensByName(grouped["liens"], grouped["releases"])
    /\ pc' = "flags"
    /\ UNCHANGED <<parserVars, loopVars, ocrVars>>
    /\ UNCHANGED <<matchResults, impl, scanDocuments, results, documents, grouped,
                   chainOfTitle, mortgageAnalysis, scanResults, flags, summary>>

\* const flags = identifyFlags(documents); a TypeError ends the search
\* (HTTP 500 from the callers' catch)
IdentifyFlags ==
    /\ pc = "flags"
    /\ IF identifyFlagsThrows(documents)
       THEN /\ pc' = "error"
            /\ flags' = flags
       ELSE /\ pc' = "summary"
            /\ flags' = identifyFlags(documents)
    /\ UNCHANGED <<parserVars, loopVars, ocrVars>>
    /\ UNCHANGED <<matchResults, impl, scanDocuments, results, documents, grouped,
                   chainOfTitle, mortgageAnalysis, scanResults, openLiens,
                   summary>>

\* summary: generateSummary(documents, chainOfTitle, mortgageAnalysis,
\*                          openLiens, flags)
GenerateSummary ==
    /\ pc = "summary"
    /\ summary' = generateSummary(impl, documents, chainOfTitle,
                                  mortgageAnalysis, openLiens, flags)
    /\ pc' = "done"
    /\ UNCHANGED <<parserVars, loopVars, ocrVars>>
    /\ UNCHANGED <<matchResults, impl, scanDocuments, results, documents, grouped,
                   chainOfTitle, mortgageAnalysis, scanResults, openLiens,
                   flags>>

Next ==
    \/ ParseRecords
    \/ GroupByDocType
    \/ BuildChainOfTitle
    \/ AnalyzeMortgages
    \/ ExtractDocument
    \/ MatchScanned
    \/ IdentifyOpenLiens
    \/ IdentifyFlags
    \/ GenerateSummary

\* a search that does not scan PDFs never reaches the batch extraction
NextUnscanned ==
    \/ ParseRecords
    \/ GroupByDocType
    \/ BuildChainOfTitle
    \/ AnalyzeMortgages
    \/ IdentifyOpenLiens
    \/ IdentifyFlags
    \/ GenerateSummary

\* the variables of the search, but its position
searchVars ==
    <<impl, scanDocuments, results, documents, grouped, chainOfTitle,
      mortgageAnalysis, scanResults, matchResults, openLiens, flags, summary>>

\* a parser is about to be called with a text; no search runs
InitParse ==
    /\ impl = "node"
    /\ scanDocuments = FALSE
    /\ results = <<>>
    /\ pc = "text"
    /\ documents = <<>>
    /\ grouped = [k \in GroupKeys(impl) |-> <<>>]
    /\ chainOfTitle = <<>>
    /\ mortgageAnalysis = EmptyAnalysis
    /\ scanResults = EmptyScanResults
    /\ matchResults = NoMatchResults
    /\ openLiens = <<>>
    /\ flags = <<>>
    /\ summary = NoSummary
    /\ docText \in Texts
    /\ parsedInfo = NoInfo
    /\ NoLoop
    /\ NoOcr

ParseMortgageText ==
    /\ pc = "text"
    /\ parsedInfo' = parseMortgageText(docText)
    /\ pc' = "mortgage"
    /\ UNCHANGED <<docText, searchVars, loopVars, ocrVars>>

ParseDeedText ==
    /\ pc = "text"
    /\ parsedInfo' = parseDeedText(docText)
    /\ pc' = "deed"
    /\ UNCHANGED <<docText, searchVars, loopVars, ocrVars>>

ParseSatisfactionText ==
    /\ pc = "text"
    /\ parsedInfo' = parseSatisfactionText(docText)
    /\ pc' = "satisfaction"
    /\ UNCHANGED <<docText, searchVars, loopVars, ocrVars>>

NextParse ==
    \/ ParseMortgageText
    \/ ParseDeedText
    \/ ParseSatisfactionText

\* the inner loop of matchSatisfactionsToMortgages is about to score a
\* satisfaction against an unmatched mortgage; no search runs
InitPair ==
    /\ impl = "node"
    /\ scanDocuments = TRUE
    /\ results = <<>>
    /\ pc = "pair"
    /\ documents = <<>>
    /\ grouped = [k \in GroupKeys(impl) |-> <<>>]
    /\ chainOfTitle = <<>>
    /\ mortgageAnalysis = EmptyAnalysis
    /\ scanResults = EmptyScanResults
    /\ matchResults = NoMatchResults
    /\ openLiens = <<>>
    /\ flags = <<>>
    /\ summary = NoSummary
    /\ docText = NoValue
    /\ parsedInfo = NoInfo
    /\ loopSat \in PairSatisfactions
    /\ loopMtg \in PairMortgages
    /\ loopScore = 0
    /\ NoOcr

\* the body of the inner loop, from let score = 0 to the date logic
ScorePair ==
    /\ pc = "pair"
    /\ loopScore' = PairScore(loopSat, loopMtg)
    /\ pc' = "scored"
    /\ UNCHANGED <<loopSat, loopMtg, searchVars, parserVars, ocrVars>>

\* matchSatisfactionsToMortgages([mtg], [sat]) returns: the scored pair was
\* the only candidate of the only satisfaction
MatchPair ==
    /\ pc = "scored"
    /\ matchResults' = matchSatisfactionsToMortgages(<<loopMtg>>, <<loopSat>>)
    /\ pc' = "matched"
    /\ UNCHANGED <<impl, scanDocuments, results, documents, grouped,
                   chainOfTitle, mortgageAnalysis, scanResults, openLiens,
                   flags, summary>>
    /\ UNCHANGED <<loopVars, parserVars, ocrVars>>

NextPair ==
    \/ ScorePair
    \/ MatchPair

\* the matcher on one satisfaction and one mortgage
SpecScore == InitPair /\ [][NextPair]_vars

\* the parsers, called with a text
SpecParse == InitParse /\ [][NextParse]_vars

\* classification, chain of title and flags
SpecGroup ==
    InitWith(GroupRecords, MaxDocs, Unscanned) /\ [][NextUnscanned]_vars

\* name-only matching
SpecAnalyze ==
    InitWith(AnalyzeRecords, MaxMatchDocs, Unscanned) /\ [][NextUnscanned]_vars

\* multi-signal matching of scanned documents
SpecMatch == InitWith(MatchRecords, MaxMatchDocs, Scanned) /\ [][Next]_vars

\* multi-signal matching of satisfactions that compete for a mortgage
SpecGreedy == InitWith(GreedyRecords, MaxMatchDocs, Scanned) /\ [][Next]_vars

\* the mortgage analysis of a search, scanned or not
SpecModes ==
    InitWith(ModesRecords, MaxMatchDocs, Unscanned \cup Scanned)
        /\ [][Next]_vars

\* multi-signal matching of satisfactions of which some have no instrument
\* number
SpecUnmatched ==
    InitWith(UnmatchedRecords, MaxMatchDocs, Scanned) /\ [][Next]_vars

\* liens and their releases
SpecLiens ==
    InitWith(LienRecords, MaxMatchDocs, Unscanned) /\ [][NextUnscanned]_vars

\* summary and risk level, scanned or not
SpecRisk ==
    InitWith(RiskRecords, MaxDocs, Unscanned \cup Scanned) /\ [][Next]_vars

-----------------------------------------------------------------------------
(* The Tesseract worker: initTesseract, runOCR and terminateOCR *)
(*   impl = "node"    : src/unnamed/part_003 (the Node extractor)          *)
(*   impl = "browser" : src/public/js/pdfScanner.js                        *)
(* Every call is an async function: it runs from one await to the next      *)
(* without interruption, and the calls interleave at their awaits.          *)

\* most calls of runOCR and terminateOCR that are in flight together
MaxCalls == 3

\* a call that has not started; worker is the call's const worker (runOCR)
\* or the worker whose terminate() it awaits (terminateOCR), 0 for none
NewCall(kind) == [kind |-> kind, at |-> "start", worker |-> 0]

\* what createWorker resolves with: a worker on which terminate() was not
\* called and no recognize() was issued after a terminate()
NewWorker == [terminated |-> FALSE, recognizedLate |-> FALSE]

\* the module was loaded and the calls are about to be made
InitOcr ==
    /\ impl \in {"node", "browser"}
    /\ scanDocuments = FALSE
    /\ results = <<>>
    /\ pc = "ocr"
    /\ documents = <<>>
    /\ grouped = [k \in GroupKeys("node") |-> <<>>]
    /\ chainOfTitle = <<>>
    /\ mortgageAnalysis = EmptyAnalysis
    /\ scanResults = EmptyScanResults
    /\ matchResults = NoMatchResults
    /\ openLiens = <<>>
    /\ flags = <<>>
    /\ summary = NoSummary
    /\ docText = NoValue
    /\ parsedInfo = NoInfo
    /\ NoLoop
    /\ tesseractWorker = 0
    /\ tesseractLoading = FALSE
    /\ workers = <<>>
    /\ calls \in UNION {[1..n -> {NewCall("runOCR"), NewCall("terminateOCR")}] :
                           n \in 1..MaxCalls}

\* what an action of the worker leaves alone
ocrIdle == <<pc, searchVars, parserVars, loopVars>>

\* runOCR calls initTesseract, which runs to its first await or return:
\* an existing worker is returned; in the browser a call that finds an
\* initialization in progress enters the wait loop; otherwise createWorker
\* is called (in the browser under tesseractLoading = true)
InitTesseract(c) ==
    /\ calls[c].kind = "runOCR"
    /\ calls[c].at = "start"
    /\ IF tesseractWorker # 0
       THEN /\ calls' = [calls EXCEPT ![c].at = "gotWorker",
                                      ![c].worker = tesseractWorker]
            /\ UNCHANGED tesseractLoading
       ELSE IF impl = "browser" /\ tesseractLoading
       THEN /\ calls' = [calls EXCEPT ![c].at = "waiting"]
            /\ UNCHANGED tesseractLoading
       ELSE /\ calls' = [calls EXCEPT ![c].at = "creating"]
            /\ tesseractLoading' = (impl = "browser")
    /\ UNCHANGED <<tesseractWorker, workers, ocrIdle>>

\* await createWorker(...) resolves: tesseractWorker = the new worker;
\* return tesseractWorker (browser: finally tesseractLoading = false)
CreateWorkerResolves(c) ==
    /\ calls[c].at = "creating"
    /\ workers' = Append(workers, NewWorker)
    /\ tesseractWorker' = Len(workers) + 1
    /\ tesseractLoading' = FALSE
    /\ calls' = [calls EXCEPT ![c].at = "gotWorker",
                              ![c].worker = Len(workers) + 1]
    /\ UNCHANGED ocrIdle

\* await createWorker(...) rejects: initTesseract throws (browser: after
\* finally tesseractLoading = false), and so does runOCR
CreateWorkerRejects(c) ==
    /\ calls[c].at = "creating"
    /\ tesseractLoading' = FALSE
    /\ calls' = [calls EXCEPT ![c].at = "threw"]
    /\ UNCHANGED <<tesseractWorker, workers, ocrIdle>>

\* browser: the 100 ms timer of the wait loop fires and tesseractLoading is
\* false: return tesseractWorker (a timer that finds it true waits again)
WaitOver(c) ==
    /\ calls[c].at = "waiting"
    /\ ~tesseractLoading
    /\ calls' = [calls EXCEPT ![c].at = "gotWorker",
                              ![c].worker = tesseractWorker]
    /\ UNCHANGED <<tesseractWorker, tesseractLoading, workers, ocrIdle>>

\* runOCR resumes with const worker = (what initTesseract returned) and
\* calls worker.recognize(image); on null this is a TypeError
Recognize(c) ==
    /\ calls[c].at = "gotWorker"
    /\ IF calls[c].worker = 0
       THEN /\ calls' = [calls EXCEPT ![c].at = "threw"]
            /\ UNCHANGED workers
       ELSE /\ calls' = [calls EXCEPT ![c].at = "recognizing"]
            /\ workers' =
                   [workers EXCEPT ![calls[c].worker].recognizedLate =
                       @ \/ workers[calls[c].worker].terminated]
    /\ UNCHANGED <<tesseractWorker, tesseractLoading, ocrIdle>>

\* await worker.recognize(image) settles and runOCR returns or throws
RecognizeSettles(c) ==
    /\ calls[c].at = "recognizing"
    /\ calls' = [calls EXCEPT ![c].at = "returned"]
    /\ UNCHANGED <<tesseractWorker, tesseractLoading, workers, ocrIdle>>

\* terminateOCR: if (tesseractWorker) tesseractWorker.terminate() is called
\* and awaited; without a worker the call returns
TerminateOCR(c) ==
    /\ calls[c].kind = "terminateOCR"
    /\ calls[c].at = "start"
    /\ IF tesseractWorker # 0
       THEN /\ workers' = [workers EXCEPT ![tesseractWorker].terminated = TRUE]
            /\ calls' = [calls EXCEPT ![c].at = "terminating",
                                      ![c].worker = tesseractWorker]
       ELSE /\ calls' = [calls EXCEPT ![c].at = "returned"]
            /\ UNCHANGED workers
    /\ UNCHANGED <<tesseractWorker, tesseractLoading, ocrIdle>>

\* await tesseractWorker.terminate() settles: tesseractWorker = null
TerminateSettles(c) ==
    /\ calls[c].at = "terminating"
    /\ tesseractWorker' = 0
    /\ calls' = [calls EXCEPT ![c].at = "returned"]
    /\ UNCHANGED <<tesseractLoading, workers, ocrIdle>>

NextOcr ==
    \/ \E c \in 1..Len(calls) : InitTesseract(c)
    \/ \E c \in 1..Len(calls) : CreateWorkerResolves(c)
    \/ \E c \in 1..Len(calls) : CreateWorkerRejects(c)
    \/ \E c \in 1..Len(calls) : WaitOver(c)
    \/ \E c \in 1..Len(calls) : Recognize(c)
    \/ \E c \in 1..Len(calls) : RecognizeSettles(c)
    \/ \E c \in 1..Len(calls) : TerminateOCR(c)
    \/ \E c \in 1..Len(calls) : TerminateSettles(c)

\* calls of runOCR and terminateOCR in flight together, either program
SpecOcr == InitOcr /\ [][NextOcr]_vars

-----------------------------------------------------------------------------
(* Positions of the search *)

\* groupByDocType has returned
Grouped == pc \notin {"parse", "group"}

\* buildChainOfTitle has returned
Chained == Grouped /\ pc # "chain"

\* analyzeMortgages has returned and no re-analysis replaced its result
Analyzed == Chained /\ pc \notin {"analyze", "scan", "match"}
                    /\ scanResults.scanned = 0

\* the scanned re-analysis has replaced the mortgage analysis
Rematched == pc \in {"liens", "flags", "summary", "done", "error"}
             /\ scanResults.scanned > 0

\* identifyFlags has returned or thrown
FlagsRun == pc \in {"summary", "done", "error"}

-----------------------------------------------------------------------------
(* Claims *)

\* ids of the satisfactions / mortgages of a list of pairs, with multiplicity
NoSharedSatisfaction(pairs) ==
    \A i, j \in 1..Len(pairs) :
        i # j => pairs[i].satisfaction.id # pairs[j].satisfaction.id

NoSharedMortgage(pairs) ==
    \A i, j \in 1..Len(pairs) :
        i # j => pairs[i].mortgage.id # pairs[j].mortgage.id

\* C1: the matches returned by matchSatisfactionsToMortgages contain no
\* satisfaction in more than one match and no mortgage in more than one match.
C1_MatchesAreOneToOne ==
    Rematched =>
        /\ NoSharedSatisfaction(matchResults.matches)
        /\ NoSharedMortgage(matchResults.matches)
        /\ NoSharedSatisfaction(mortgageAnalysis.satisfiedList)
        /\ NoSharedMortgage(mortgageAnalysis.satisfiedList)

\* two pairs were matched by the multi-signal matcher
C1_Witness ==
    /\ Rematched
    /\ Len(matchResults.matches) >= 2
    /\ Len(mortgageAnalysis.satisfiedList) >= 2

\* C2: in the name-based analyzeMortgages of the Pages Function no
\* satisfaction appears in more than one satisfiedList entry.
C2_FindUsesSatisfactionOnce ==
    (impl = "pages" /\ Analyzed) =>
        NoSharedSatisfaction(mortgageAnalysis.satisfiedList)

\* C3: in the pool-based analyzeMortgages each satisfaction is paired with at
\* most one mortgage and each mortgage with at most one satisfaction.
C3_PoolIsOneToOne ==
    (impl = "node" /\ Analyzed) =>
        /\ NoSharedSatisfaction(mortgageAnalysis.satisfiedList)
        /\ NoSharedMortgage(mortgageAnalysis.satisfiedList)

\* the pool-based analysis paired two mortgages, each with its own
\* satisfaction, and left a mortgage that matched the same names open
C3_Witness ==
    /\ impl = "node"
    /\ Analyzed
    /\ Len(mortgageAnalysis.satisfiedList) >= 2

\* position of the satisfaction with identity id in the scanned list
SatPosition(id) ==
    CHOOSE k \in 1..Len(scannedSatisfactions) : scannedSatisfactions[k].id = id

\* the mortgage was matched to a satisfaction processed before position k
ConsumedBefore(mtg, k) ==
    \E n \in 1..Len(matchResults.matches) :
        /\ matchResults.matches[n].mortgage.id = mtg.id
        /\ SatPosition(matchResults.matches[n].satisfaction.id) < k

\* the pairs of a scanned satisfaction (by position) and a scanned mortgage
\* whose instrument numbers are equal
InstrumentPairs ==
    {p \in (1..Len(scannedSatisfactions)) \X (1..Len(scannedMortgages)) :
        InstrumentSignal(scannedSatisfactions[p[1]], scannedMortgages[p[2]])}

\* C4 as claimed: a pair with equal instrument numbers scores at least 100
\* and is accepted as a match, whatever the order of the timestamps.
C4_InstrumentPairScores100AndIsMatched ==
    Rematched =>
        \A p \in InstrumentPairs :
            LET sat == scannedSatisfactions[p[1]]
                mtg == scannedMortgages[p[2]]
            IN  /\ PairScore(sat, mtg) >= 100
                /\ \E n \in 1..Len(matchResults.matches) :
                      /\ matchResults.matches[n].satisfaction.id = sat.id
                      /\ matchResults.matches[n].mortgage.id = mtg.id

\* C4 amended: a pair with equal instrument numbers scores at least 80 (the
\* -20 penalty applies when the discharge is not strictly later), and unless
\* the encumbrance was matched to an earlier discharge, the discharge is
\* accepted as a match with a score of at least that pair's score.
C4_InstrumentPairScores80AndWins ==
    Rematched =>
        \A p \in InstrumentPairs :
            LET sat == scannedSatisfactions[p[1]]
                mtg == scannedMortgages[p[2]]
            IN  /\ PairScore(sat, mtg) >= 80
                /\ \/ ConsumedBefore(mtg, p[1])
                   \/ \E n \in 1..Len(matchResults.matches) :
                         /\ matchResults.matches[n].satisfaction.id = sat.id
                         /\ matchResults.matches[n].score
                                >= PairScore(sat, mtg)
                         /\ matchResults.matches[n].score >= 30

\* a discharge recorded before the encumbrance it names was matched to it
\* with a score below 100
C4_Witness ==
    /\ Rematched
    /\ \E p \in InstrumentPairs :
          LET sat == scannedSatisfactions[p[1]]
              mtg == scannedMortgages[p[2]]
          IN  /\ sat.recordTimestamp < mtg.recordTimestamp
              /\ PairScore(sat, mtg) < 100
              /\ \E n \in 1..Len(matchResults.matches) :
                    /\ matchResults.matches[n].satisfaction.id = sat.id
                    /\ matchResults.matches[n].mortgage.id = mtg.id

\* the places <<bucket, position>> of the grouping that hold document id
PlacesOf(id) ==
    {pl \in UNION {{<<k, n>> : n \in 1..Len(grouped[k])} : k \in DOMAIN grouped} :
        grouped[pl[1]][pl[2]].id = id}

\* the short codes the switch names
MappedCodes(im) ==
    {cD, cMTG, cMTGREV, cMTGNDOC, cMTGNT, cMTGNIT, cSAT, cSATCORPTX, cLN,
     cMEDLN, cLNCORPTX, cLP, cEAS, cRES, cJUD, cREL, cRELLP, cASG, cASGT,
     cASINT} \cup (IF im = "node" THEN {cMOD} ELSE {})

\* C5: groupByDocType is total and a partition: every document is in exactly
\* one place of exactly one bucket, every bucket entry is an input document,
\* and unmapped or missing short codes are in 'other'.
C5_GroupingIsPartition ==
    Grouped =>
        /\ \A id \in 1..Len(documents) :
              /\ Cardinality(PlacesOf(id)) = 1
              /\ \A pl \in PlacesOf(id) :
                    /\ grouped[pl[1]][pl[2]] = documents[id]
                    /\ documents[id].docTypeShort \notin MappedCodes(impl)
                           => pl[1] = "other"
        /\ \A k \in DOMAIN grouped : \A n \in 1..Len(grouped[k]) :
              grouped[k][n].id \in 1..Len(documents)

\* three documents were grouped into several buckets, one of them without a
\* short code and one with an unmapped code
C5_Witness ==
    /\ Grouped
    /\ Len(documents) = 3
    /\ \E i, j, k \in 1..3 :
          /\ documents[i].docTypeShort = NoValue
          /\ documents[j].docTypeShort \notin MappedCodes(impl) \cup {NoValue}
          /\ documents[k].docTypeShort = cD

\* C6: every bucket is ordered by non-increasing recordTimestamp, and two
\* documents of a bucket with equal recordTimestamp keep their input order.
C6_BucketsNewestFirstStable ==
    Grouped =>
        \A k \in DOMAIN grouped : \A i, j \in 1..Len(grouped[k]) :
            i < j =>
                /\ grouped[k][i].recordTimestamp >= grouped[k][j].recordTimestamp
                /\ grouped[k][i].recordTimestamp = grouped[k][j].recordTimestamp
                       => grouped[k][i].id < grouped[k][j].id

\* a bucket of three documents, two of them with equal timestamps, whose
\* input order was not the sorted order
C6_Witness ==
    /\ Grouped
    /\ \E k \in DOMAIN grouped :
          /\ Len(grouped[k]) = 3
          /\ grouped[k][1].id # 1
          /\ \E i \in 1..2 :
                grouped[k][i].recordTimestamp = grouped[k][i + 1].recordTimestamp
          /\ grouped[k][1].recordTimestamp > grouped[k][3].recordTimestamp

\* the documents of the Deed category
DeedIds == {id \in 1..Len(documents) : documents[id].docTypeShort = cD}

\* C7: buildChainOfTitle returns exactly one entry per deed, numbered 1..N in
\* order, in non-decreasing recordTimestamp order; no deeds, an empty chain.
C7_ChainIsNumberedOldestFirst ==
    Chained =>
        /\ Len(chainOfTitle) = Cardinality(DeedIds)
        /\ {chainOfTitle[n].id : n \in 1..Len(chainOfTitle)} = DeedIds
        /\ \A n \in 1..Len(chainOfTitle) : chainOfTitle[n].sequence = n
        /\ \A m, n \in 1..Len(chainOfTitle) :
              m < n => chainOfTitle[m].recordTimestamp
                          <= chainOfTitle[n].recordTimestamp

\* a chain of three deeds with different timestamps
C7_Witness ==
    /\ Chained
    /\ Len(chainOfTitle) = 3
    /\ chainOfTitle[1].recordTimestamp < chainOfTitle[3].recordTimestamp

\* the set has two deeds, not older than any other deed, less than 90 days
\* apart
TwoNewestDeedsWithin90Days ==
    \E a, b \in DeedIds :
        /\ a # b
        /\ \A c \in DeedIds \ {a, b} :
              /\ documents[c].recordTimestamp <= documents[a].recordTimestamp
              /\ documents[c].recordTimestamp <= documents[b].recordTimestamp
        /\ Abs(documents[a].recordTimestamp - documents[b].recordTimestamp)
               < QuickFlipDays * SecondsPerDay

HasQuickFlipFlag ==
    \E k \in 1..Len(flags) :
        flags[k].type = "quick_flip" /\ flags[k].severity = "medium"

\* C8: identifyFlags emits a quick_flip flag (severity medium) if and only if
\* the set has at least 2 deeds and the two newest are less than 90 days
\* apart.
C8_QuickFlipIffTwoNewestWithin90Days ==
    FlagsRun => (HasQuickFlipFlag <=> TwoNewestDeedsWithin90Days)

HasHighFlag == \E k \in 1..Len(flags) : flags[k].severity = "high"

HasMediumFlag == \E k \in 1..Len(flags) : flags[k].severity = "medium"

\* C9: the summary's riskLevel is HIGH if and only if a flag of severity high
\* exists.
C9_HighIffHighFlag ==
    pc = "done" => (summary.riskLevel = "HIGH" <=> HasHighFlag)

\* a HIGH summary with an open lien, and one without high flags that is not
\* HIGH, are both produced; this is the first
C9_Witness ==
    /\ pc = "done"
    /\ summary.riskLevel = "HIGH"
    /\ Len(openLiens) > 0
    /\ HasHighFlag

\* the search ran in scanned mode
ScannedMode == impl = "node" /\ scanDocuments

\* C10 as claimed: without a high flag, riskLevel is MEDIUM iff a medium flag
\* exists, or an open lien exists, or the search ran in scanned mode and more
\* than one mortgage is open; otherwise LOW.
C10_OpenMortgagesCountOnlyWhenScanned ==
    (pc = "done" /\ ~HasHighFlag) =>
        IF \/ HasMediumFlag
           \/ Len(openLiens) > 0
           \/ (ScannedMode /\ Len(mortgageAnalysis.open) > 1)
        THEN summary.riskLevel = "MEDIUM"
        ELSE summary.riskLevel = "LOW"

\* C10 amended: without a high flag, riskLevel is MEDIUM iff a medium flag
\* exists, or an open lien exists, or (search orchestration, scanned or not)
\* more than one mortgage is open; otherwise LOW.  The Pages Function never
\* counts the open mortgages.
C10_OpenMortgagesCountInNode ==
    (pc = "done" /\ ~HasHighFlag) =>
        IF \/ HasMediumFlag
           \/ Len(openLiens) > 0
           \/ (impl = "node" /\ Len(mortgageAnalysis.open) > 1)
        THEN summary.riskLevel = "MEDIUM"
        ELSE summary.riskLevel = "LOW"

\* an unscanned search of the orchestration with two open mortgages, no
\* flag and no open lien is MEDIUM
C10_Witness ==
    /\ pc = "done"
    /\ impl = "node"
    /\ ~scanDocuments
    /\ Len(flags) = 0
    /\ Len(openLiens) = 0
    /\ Len(mortgageAnalysis.open) = 2
    /\ summary.riskLevel = "MEDIUM"

\* C11: the core pipeline raises no error, whatever fields the raw records
\* lack: the search never ends in an exception.
C11_PipelineNeverRaises == pc # "error"

\* how many entries of the list of documents have identity id
TimesIn(docs, id) ==
    Cardinality({k \in 1..Len(docs) : docs[k].id = id})

\* how many matches pair the mortgage / the satisfaction of identity id
TimesMatchedMortgage(id) ==
    Cardinality({n \in 1..Len(matchResults.matches) :
                    matchResults.matches[n].mortgage.id = id})

TimesMatchedSatisfaction(id) ==
    Cardinality({n \in 1..Len(matchResults.matches) :
                    matchResults.matches[n].satisfaction.id = id})

\* C12: in the result of matchSatisfactionsToMortgages every input mortgage
\* is in exactly one of {a match, unmatchedMortgages} and every input
\* satisfaction is in exactly one of {a match, unmatchedSatisfactions}.
C12_EveryDocumentReportedOnce ==
    Rematched =>
        /\ \A k \in 1..Len(scannedMortgages) :
              TimesMatchedMortgage(scannedMortgages[k].id)
                  + TimesIn(matchResults.unmatchedMortgages,
                            scannedMortgages[k].id) = 1
        /\ \A k \in 1..Len(scannedSatisfactions) :
              TimesMatchedSatisfaction(scannedSatisfactions[k].id)
                  + TimesIn(matchResults.unmatchedSatisfactions,
                            scannedSatisfactions[k].id) = 1

\* Scenario B: the search returned exactly one mortgage and one satisfaction
\* and the text of the satisfaction names the mortgage's instrument number
ScenarioB ==
    /\ Rematched
    /\ Len(results) = 2
    /\ Len(scannedMortgages) = 1
    /\ Len(scannedSatisfactions) = 1
    /\ scannedMortgages[1].instrumentNumber # 0
    /\ scannedSatisfactions[1].extractedData.satisfiedInstrumentNumber
           = StringOf(scannedMortgages[1].instrumentNumber)

\* the pair of Scenario B is the only match and no mortgage is left open
ScenarioBMatched ==
    /\ Len(matchResults.matches) = 1
    /\ matchResults.matches[1].mortgage.id = scannedMortgages[1].id
    /\ matchResults.matches[1].satisfaction.id = scannedSatisfactions[1].id
    /\ matchResults.unmatchedMortgages = <<>>
    /\ mortgageAnalysis.open = <<>>
    /\ mortgageAnalysis.satisfied = 1

\* C13 as claimed: in Scenario B, for every choice of the two timestamps, the
\* pair scores at least 100, is matched with confidence 'high', and no
\* mortgage is open.
C13_ScenarioBScores100High ==
    ScenarioB =>
        /\ ScenarioBMatched
        /\ matchResults.matches[1].score >= 100
        /\ matchResults.matches[1].confidence = "high"

\* C13 amended: in Scenario B the pair is always matched and no mortgage is
\* open; the score is at least 105 and the confidence 'high' when the
\* satisfaction was recorded strictly after the mortgage, and otherwise the
\* score is at least 80 and the confidence is 'high' only from 90 on,
\* 'medium' below.
C13_ScenarioBMatchedLaterHigh ==
    ScenarioB =>
        /\ ScenarioBMatched
        /\ LET match == matchResults.matches[1]
               later == match.satisfaction.recordTimestamp
                            > match.mortgage.recordTimestamp
           IN  /\ later => (match.score >= 105 /\ match.confidence = "high")
               /\ ~later =>
                     /\ match.score >= 80
                     /\ match.confidence =
                            (IF match.score >= 90 THEN "high" ELSE "medium")

\* Scenario B with the satisfaction recorded before the mortgage: matched
\* with score 80 and confidence 'medium'
C13_Witness ==
    /\ ScenarioB
    /\ ScenarioBMatched
    /\ scannedSatisfactions[1].recordTimestamp
           < scannedMortgages[1].recordTimestamp
    /\ matchResults.matches[1].score = 80
    /\ matchResults.matches[1].confidence = "medium"

\* Scenario A: the search returned exactly two deeds, recorded 30 days apart
ScenarioA ==
    /\ Len(results) = 2
    /\ \A k \in 1..2 : DocTypeShort(results[k].DocType) = cD
    /\ Abs(results[1].RecordDate - results[2].RecordDate) = Days(30)

\* C14: for a search whose records are exactly two deeds recorded at T and
\* T + 86400*30, the result has a chain of title of length 2, a quick_flip
\* flag, and riskLevel MEDIUM.
C14_ScenarioAIsMediumQuickFlip ==
    ScenarioA =>
        /\ pc # "error"
        /\ Chained => Len(chainOfTitle) = 2
        /\ FlagsRun =>
              /\ HasQuickFlipFlag
              /\ Len(flags) = 1
        /\ pc = "done" =>
              /\ summary.chainOfTitleLength = 2
              /\ summary.mediumSeverityFlags = 1
              /\ summary.riskLevel = "MEDIUM"

\* performTitleSearch returned the result of Scenario A
C14_Witness ==
    /\ ScenarioA
    /\ impl = "node"
    /\ pc = "done"
    /\ summary.riskLevel = "MEDIUM"

\* the text has fewer than 50 characters, is empty or is absent
ShortText == docText = NoValue \/ Len(docText) < MinTextLength

\* C15: for each of the three parsers, a text shorter than 50 characters
\* (empty and absent texts included) yields a result of confidence 'low' in
\* which nothing is extracted: every value is null, every list is empty and
\* both indicators of the mortgage are false.
C15_ShortTextYieldsNothing ==
    ShortText =>
        /\ pc = "mortgage" =>
              /\ parsedInfo.principalAmount = NullNumber
              /\ parsedInfo.lenderName = Null
              /\ parsedInfo.instrumentReferences = <<>>
              /\ ~parsedInfo.isModification
              /\ ~parsedInfo.isRefinance
              /\ parsedInfo.maturityDate = Null
              /\ parsedInfo.interestRate = NullNumber
              /\ parsedInfo.propertyAddress = Null
              /\ parsedInfo.confidence = "low"
        /\ pc = "deed" =>
              /\ parsedInfo.consideration = NullNumber
              /\ parsedInfo.legalDescription = Null
              /\ parsedInfo.propertyAddress = Null
              /\ parsedInfo.deedType = Null
              /\ parsedInfo.grantors = <<>>
              /\ parsedInfo.grantees = <<>>
              /\ parsedInfo.confidence = "low"
        /\ pc = "satisfaction" =>
              /\ parsedInfo.satisfiedInstrumentNumber = Null
              /\ parsedInfo.satisfiedBookPage = Null
              /\ parsedInfo.originalLender = Null
              /\ parsedInfo.originalAmount = NullNumber
              /\ parsedInfo.satisfiedDate = Null
              /\ parsedInfo.confidence = "low"

\* a text of 49 characters that names a deed type and a consideration was
\* parsed as a deed and nothing was extracted
C15_Witness ==
    /\ pc = "deed"
    /\ docText # NoValue
    /\ Len(docText) = MinTextLength - 1
    /\ Includes(docText, <<"W", "A", "R", "R", "A", "N", "T", "Y">>)
    /\ parsedInfo.deedType = Null
    /\ parsedInfo.confidence = "low"

\* the same sentence in a text of 50 characters is read
C15_LongTextIsRead ==
    /\ pc = "deed"
    /\ docText # NoValue
    /\ Len(docText) = MinTextLength
    /\ parsedInfo.deedType = <<"W", "A", "R", "R", "A", "N", "T", "Y">>
    /\ parsedInfo.consideration = 250000
    /\ parsedInfo.confidence = "medium"


\* C15 as stated: after a text shorter than 50 characters every field of the
\* result but its confidence is null, the lists of references, grantors and
\* grantees included. The parsers return these lists empty (and the two
\* indicators of a mortgage false), never null.
C15_ShortTextYieldsAllNull ==
    ShortText =>
        /\ pc = "mortgage" =>
              /\ parsedInfo.principalAmount = NullNumber
              /\ parsedInfo.lenderName = Null
              /\ parsedInfo.instrumentReferences = Null
              /\ parsedInfo.maturityDate = Null
              /\ parsedInfo.interestRate = NullNumber
              /\ parsedInfo.propertyAddress = Null
              /\ parsedInfo.confidence = "low"
        /\ pc = "deed" =>
              /\ parsedInfo.consideration = NullNumber
              /\ parsedInfo.legalDescription = Null
              /\ parsedInfo.propertyAddress = Null
              /\ parsedInfo.deedType = Null
              /\ parsedInfo.grantors = Null
              /\ parsedInfo.grantees = Null
              /\ parsedInfo.confidence = "low"
        /\ pc = "satisfaction" =>
              /\ parsedInfo.satisfiedInstrumentNumber = Null
              /\ parsedInfo.satisfiedBookPage = Null
              /\ parsedInfo.originalLender = Null
              /\ parsedInfo.originalAmount = NullNumber
              /\ parsedInfo.satisfiedDate = Null
              /\ parsedInfo.confidence = "low"


\* the sequence without its element at position f
Without(seq, f) == SubSeq(seq, 1, f - 1) \o SubSeq(seq, f + 1, Len(seq))

\* the extraction of the document at position f of the batch failed: it
\* returned success = false or it threw
ExtractionFailed(f) == ~PdfStore(DocsToScan[f].documentId).success

\* the batch of the search has returned
BatchReturned == scanResults.scanned > 0 /\ pc # "scan"

\* C16: a document whose extraction fails (success = false, or an error is
\* thrown) does not abort the batch: the batch returns one entry per
\* document, the failed document's entry is marked needsManualReview, and the
\* entries of the other documents are, in order, the entries of the batch run
\* without the failed document.
C16_FailureIsIsolated ==
    BatchReturned =>
        /\ scanResults.scanned = Len(DocsToScan)
        /\ Len(scanResults.documents) = Len(DocsToScan)
        /\ \A f \in 1..Len(DocsToScan) :
              ExtractionFailed(f) =>
                  /\ scanResults.documents[f].id = DocsToScan[f].id
                  /\ DocsToScan[f].id \in scanResults.reviewIds
                  /\ Without(scanResults.documents, f) =
                         batchExtractDocuments(Without(DocsToScan, f)).documents

\* a batch returned in which one extraction threw, another returned
\* success = false, and a later document's text was read
C16_Witness ==
    /\ BatchReturned
    /\ pc = "match"
    /\ \E f, g, j \in 1..Len(DocsToScan) :
          /\ f < j /\ g < j
          /\ PdfStore(DocsToScan[f].documentId).thrown
          /\ PdfStore(DocsToScan[g].documentId) = PdfError
          /\ scanResults.documents[j].extractedData # NoExtractedData
          /\ scanResults.failed = 1


\* C17: with scanDocuments enabled, matchSatisfactionsToMortgages runs only
\* after batchExtractDocuments has handled every mortgage and satisfaction of
\* the batch: when the matcher is about to run, and whenever its result
\* exists, scanned equals the number of documents to scan and every one of
\* them has its entry; while the batch runs there is no match result.
C17_MatcherWaitsForBatch ==
    /\ pc = "match" =>
          /\ scanResults.scanned = Len(DocsToScan)
          /\ Len(scanResults.documents) = Len(DocsToScan)
    /\ matchResults # NoMatchResults =>
          /\ scanResults.scanned = Len(DocsToScan)
          /\ Len(scanResults.documents) = Len(DocsToScan)
    /\ pc = "scan" => matchResults = NoMatchResults

\* the matcher has run on a batch of three documents, all of them scanned
C17_Witness ==
    /\ pc = "liens"
    /\ scanDocuments
    /\ Len(DocsToScan) = 3
    /\ scanResults.scanned = 3
    /\ Len(matchResults.matches) = 1


\* the identities of the documents of a list, in order
IdsOf(docs) == [k \in 1..Len(docs) |-> docs[k].id]

\* the scanned re-analysis ran on documents none of which has extracted data
ScannedWithoutData ==
    /\ BatchReturned
    /\ pc # "match"
    /\ \A k \in 1..Len(scanResults.documents) :
          scanResults.documents[k].extractedData = NoExtractedData

\* C18: when the scanned re-analysis runs on mortgages and satisfactions
\* without extracted data, no error is raised and the mortgages are split
\* into satisfied and open as the name-only analyzeMortgages splits the same
\* documents.
C18_NoDataMatchesByName ==
    ScannedWithoutData =>
        LET byName == analyzeMortgages(grouped["mortgages"],
                                       grouped["satisfactions"])
        IN  /\ mortgageAnalysis.satisfied = byName.satisfied
            /\ IdsOf(mortgageAnalysis.open) = IdsOf(byName.open)


\* identifyOpenLiens has returned
LiensIdentified == pc \in {"flags", "summary", "done"}

\* the release was recorded strictly after the lien and one of its grantor
\* names overlaps one of the lien's
Releases(rel, lien) ==
    /\ rel.recordTimestamp > lien.recordTimestamp
    /\ LienNameMatch(lien, rel)

\* the positions of the releases consumed by the liens before position l
RECURSIVE ReleasesConsumedBefore(_, _, _)
ReleasesConsumedBefore(liens, releases, l) ==
    IF l <= 1 THEN {}
    ELSE LET used == ReleasesConsumedBefore(liens, releases, l - 1)
             free == {r \in 1..Len(releases) :
                         /\ r \notin used
                         /\ Releases(releases[r], liens[l - 1])}
         IN  IF free = {} THEN used
             ELSE used \cup {CHOOSE r \in free : \A j \in free : r <= j}

\* C19 as stated: the open liens are the liens that the mortgages' name-only
\* rule (10 for a later release, 5 per name overlap, best score of at least
\* 10 consumed) leaves open.
C19_LiensMatchedLikeMortgages ==
    LiensIdentified =>
        IdsOf(openLiens) =
            IdsOf(analyzeMortgages(grouped["liens"], grouped["releases"]).open)

\* C19, amended: liens are not scored.  The search orchestration takes the
\* liens in list order and consumes, for each, the first release not yet
\* consumed that was recorded strictly later and shares a grantor name with
\* it; the lien is open iff there is none.  The Pages Function reports a lien
\* open iff no release at all, whenever recorded and whether or not it closed
\* another lien, matches its joined grantor names.
C19_LiensNeedLaterNamedRelease ==
    LiensIdentified =>
        LET liens    == grouped["liens"]
            releases == grouped["releases"]
            open     ==
                IF impl = "node"
                THEN {l \in 1..Len(liens) :
                         \A r \in 1..Len(releases) :
                             \/ r \in ReleasesConsumedBefore(liens, releases,
                                                              l)
                             \/ ~Releases(releases[r], liens[l])}
                ELSE {l \in 1..Len(liens) :
                         \A r \in 1..Len(releases) :
                             ~JoinedNameMatch(liens[l], releases[r])}
        IN  IdsOf(openLiens) = IdsOf(SelectIdx(liens, open, 1))

\* two liens and a later release under their name: the first lien consumed
\* the release and the second is open
C19_Witness ==
    /\ LiensIdentified
    /\ impl = "node"
    /\ Len(grouped["liens"]) = 2
    /\ Len(grouped["releases"]) = 1
    /\ IdsOf(openLiens) = <<grouped["liens"][2].id>>


\* 10 if the satisfaction was recorded strictly later than the mortgage, plus
\* 5 for every pair of a mortgage grantor and a satisfaction grantor whose
\* names overlap on a first token
FallbackScore(mtg, sat) ==
    LET pairs == {p \in (1..Len(mtg.grantors)) \X (1..Len(sat.grantors)) :
                     LET mtgName == ToLower(mtg.grantors[p[1]])
                         satName == ToLower(sat.grantors[p[2]])
                     IN  \/ Includes(satName, FirstToken(mtgName))
                         \/ Includes(FirstToken(mtgName), FirstToken(satName))}
    IN  (IF sat.recordTimestamp > mtg.recordTimestamp THEN 10 ELSE 0)
        + 5 * Cardinality(pairs)

\* the position, in the list of satisfactions, of the satisfaction that the
\* mortgage at position m takes: the first of those with the highest score
\* among the satisfactions that no earlier mortgage took, if that score is at
\* least 10; 0 otherwise
RECURSIVE FallbackChoice(_, _, _)
FallbackChoice(mortgages, satisfactions, m) ==
    LET taken == {FallbackChoice(mortgages, satisfactions, n) : n \in 1..(m - 1)}
        pool  == {s \in 1..Len(satisfactions) : s \notin taken}
        score(s) == FallbackScore(mortgages[m], satisfactions[s])
        best  == {s \in pool : \A t \in pool : score(t) <= score(s)}
    IN  IF best = {} THEN 0
        ELSE LET s == CHOOSE s \in best : \A t \in best : s <= t
             IN  IF score(s) >= 10 THEN s ELSE 0

\* C20: the name-only analyzeMortgages takes the mortgages in list order and
\* gives each the first of the highest-scoring satisfactions still in the
\* pool (10 if strictly later, 5 per overlapping pair of grantor names) when
\* that score is at least 10, removing it from the pool; otherwise the
\* mortgage is open.
C20_FallbackTakesBestOfPool ==
    (Analyzed /\ impl = "node") =>
        LET mortgages     == grouped["mortgages"]
            satisfactions == grouped["satisfactions"]
            choice(m)     == FallbackChoice(mortgages, satisfactions, m)
            paired        == SelectIdx(mortgages,
                                       {m \in 1..Len(mortgages) : choice(m) # 0},
                                       1)
            open          == SelectIdx(mortgages,
                                       {m \in 1..Len(mortgages) : choice(m) = 0},
                                       1)
        IN  /\ IdsOf(mortgageAnalysis.open) = IdsOf(open)
            /\ mortgageAnalysis.satisfied = Len(paired)
            /\ Len(mortgageAnalysis.satisfiedList) = Len(paired)
            /\ \A n \in 1..Len(paired) :
                  /\ mortgageAnalysis.satisfiedList[n].mortgage.id = paired[n].id
                  /\ \E m \in 1..Len(mortgages) :
                        /\ mortgages[m].id = paired[n].id
                        /\ mortgageAnalysis.satisfiedList[n].satisfaction.id =
                               satisfactions[choice(m)].id

\* a mortgage took the first of two satisfactions with equal scores, the
\* second stayed unpaired, and a mortgage is open
C20_Witness ==
    /\ Analyzed
    /\ impl = "node"
    /\ Len(mortgageAnalysis.open) >= 1
    /\ \E n \in 1..Len(mortgageAnalysis.satisfiedList) :
          \E s, t \in 1..Len(grouped["satisfactions"]) :
              LET pair == mortgageAnalysis.satisfiedList[n]
              IN  /\ s < t
                  /\ pair.satisfaction.id = grouped["satisfactions"][s].id
                  /\ FallbackScore(pair.mortgage, grouped["satisfactions"][t])
                         = FallbackScore(pair.mortgage, pair.satisfaction)
                  /\ \A k \in 1..Len(mortgageAnalysis.satisfiedList) :
                        mortgageAnalysis.satisfiedList[k].satisfaction.id
                            # grouped["satisfactions"][t].id

\* ---- C21 ----

\* the signals as the score rule states them, on the fields of a pair
RuleInstrument(sat, mtg) ==
    /\ sat.extractedData.satisfiedInstrumentNumber # NoValue
    /\ mtg.instrumentNumber # 0
    /\ sat.extractedData.satisfiedInstrumentNumber
           = StringOf(mtg.instrumentNumber)

RuleBookPage(sat, mtg) ==
    /\ sat.extractedData.satisfiedBookPage # NoValue
    /\ mtg.bookNum # 0 /\ mtg.pageNum # 0
    /\ Occurrences(sat.extractedData.satisfiedBookPage,
                   StringOf(mtg.bookNum)) # {}
    /\ Occurrences(sat.extractedData.satisfiedBookPage,
                   StringOf(mtg.pageNum)) # {}

RuleAmount(sat, mtg) ==
    LET a == sat.extractedData.originalAmount
        p == mtg.extractedData.principalAmount
    IN  a # 0 /\ p # 0 /\ 100 * a > 99 * p /\ 100 * a < 101 * p

RuleLender(sat, mtg) ==
    LET s == sat.extractedData.originalLender
        m == mtg.extractedData.lenderName
    IN  /\ s # NoValue /\ m # NoValue
        /\ \/ Occurrences(ToLower(s), FirstToken(ToLower(m))) # {}
           \/ Occurrences(ToLower(m), FirstToken(ToLower(s))) # {}

RuleGrantor(sat, mtg) ==
    /\ sat.grantors # <<>> /\ mtg.grantors # <<>>
    /\ FirstToken(ToLower(sat.grantors[1]))
           = FirstToken(ToLower(mtg.grantors[1]))

RuleScore(sat, mtg) ==
      (IF RuleInstrument(sat, mtg) THEN 100 ELSE 0)
    + (IF RuleBookPage(sat, mtg) THEN 90 ELSE 0)
    + (IF RuleAmount(sat, mtg) THEN 30 ELSE 0)
    + (IF RuleLender(sat, mtg) THEN 20 ELSE 0)
    + (IF RuleGrantor(sat, mtg) THEN 10 ELSE 0)
    + (IF sat.recordTimestamp > mtg.recordTimestamp THEN 5 ELSE -20)

\* C21: the score the inner loop of the multi-signal matcher reaches for a
\* (satisfaction, mortgage) pair is the sum of 100 (extracted instrument
\* number equal to the mortgage's), 90 (book and page both occur in the
\* extracted reference), 30 (original amount less than 1% away from the
\* principal), 20 (lender first token contained, either way), 10 (equal
\* grantor first tokens) and +5 when the satisfaction is strictly later,
\* else -20; it lies between -20 and 255.
C21_ScoreIsSumOfSignals ==
    pc = "scored" =>
        /\ loopScore = RuleScore(loopSat, loopMtg)
        /\ loopScore >= -20
        /\ loopScore <= 255

\* a pair with every signal was scored: 255
C21_Witness ==
    /\ pc = "scored"
    /\ loopScore = 255
    /\ RuleInstrument(loopSat, loopMtg)
    /\ RuleBookPage(loopSat, loopMtg)

\* the lowest score: no signal and a satisfaction that is not later
C21_LowestScore == pc = "scored" /\ loopScore = -20

\* ---- C22 ----

\* the confidence tier of a score, as the acceptance rule states it
RuleTier(score) ==
    CASE score >= 90 -> "high"
      [] score >= 50 /\ score < 90 -> "medium"
      [] score >= 30 /\ score < 50 -> "low"
      [] OTHER -> "none"

\* C22: every match the multi-signal matcher returns has a score of at
\* least 30 and the confidence of its tier ('high' from 90, 'medium' from 50
\* to 89, 'low' from 30 to 49), its score is the score of its pair, and a
\* satisfaction whose best (here only) candidate scores below 30 is in no
\* match: it is reported unmatched and the mortgage stays open.
C22_MatchesAreAcceptedAndTiered ==
    pc = "matched" =>
        /\ \A k \in 1..Len(matchResults.matches) :
              LET match == matchResults.matches[k]
              IN  /\ match.score >= 30
                  /\ match.score = loopScore
                  /\ match.confidence = RuleTier(match.score)
                  /\ match.satisfaction = loopSat
                  /\ match.mortgage = loopMtg
        /\ loopScore < 30 =>
              /\ matchResults.matches = <<>>
              /\ matchResults.unmatchedMortgages = <<loopMtg>>
              /\ matchResults.unmatchedSatisfactions = <<loopSat>>
        /\ loopScore >= 30 => Len(matchResults.matches) = 1

\* a match at the threshold was returned, with confidence 'low'
C22_Witness ==
    /\ pc = "matched"
    /\ Len(matchResults.matches) = 1
    /\ matchResults.matches[1].score = 30
    /\ matchResults.matches[1].confidence = "low"

\* a pair that scores 25 (lender and date), the nearest score below the
\* threshold, was left unpaired
C22_BelowThreshold ==
    /\ pc = "matched"
    /\ loopScore = 25
    /\ matchResults.matches = <<>>

\* a match at 90 was returned, with confidence 'high'
C22_TierEdges ==
    /\ pc = "matched"
    /\ Len(matchResults.matches) = 1
    /\ matchResults.matches[1].score = 90
    /\ matchResults.matches[1].confidence = "high"

\* ---- C23 ----

\* the positions of the scanned mortgages that no satisfaction processed
\* before position k has taken
PoolAt(k) ==
    {m \in 1..Len(scannedMortgages) :
        ~ConsumedBefore(scannedMortgages[m], k)}

\* the positions of PoolAt(k) whose score with the satisfaction at position k
\* is the highest of the pool
TopOfPool(k) ==
    {m \in PoolAt(k) :
        \A j \in PoolAt(k) :
            PairScore(scannedSatisfactions[k], scannedMortgages[j])
                <= PairScore(scannedSatisfactions[k], scannedMortgages[m])}

FirstOfTop(k) == CHOOSE m \in TopOfPool(k) : \A j \in TopOfPool(k) : m <= j

\* C23: the multi-signal matcher is greedy in discharge order.  The matches
\* are in the order of the satisfactions; the satisfaction at position k is
\* matched iff the highest score among the mortgages not taken by an earlier
\* satisfaction is at least 30, and then to the earliest mortgage (in pool
\* order) with that score; and the matches made for the first k
\* satisfactions are the same whatever satisfactions follow.
C23_MatcherIsGreedyInOrder ==
    Rematched =>
        /\ \A n1, n2 \in 1..Len(matchResults.matches) :
              n1 < n2 =>
                  SatPosition(matchResults.matches[n1].satisfaction.id)
                      < SatPosition(matchResults.matches[n2].satisfaction.id)
        /\ \A k \in 1..Len(scannedSatisfactions) :
              LET sat == scannedSatisfactions[k]
                  taken == {n \in 1..Len(matchResults.matches) :
                               matchResults.matches[n].satisfaction.id = sat.id}
              IN  IF /\ PoolAt(k) # {}
                     /\ PairScore(sat, scannedMortgages[FirstOfTop(k)]) >= 30
                  THEN \E n \in taken :
                          /\ taken = {n}
                          /\ matchResults.matches[n].mortgage.id
                                 = scannedMortgages[FirstOfTop(k)].id
                          /\ matchResults.matches[n].score
                                 = PairScore(sat,
                                             scannedMortgages[FirstOfTop(k)])
                  ELSE taken = {}
        /\ \A k \in 0..Len(scannedSatisfactions) :
              LET before == matchSatisfactionsToMortgages(
                                scannedMortgages,
                                SubSeq(scannedSatisfactions, 1, k)).matches
              IN  /\ Len(before) <= Len(matchResults.matches)
                  /\ before = SubSeq(matchResults.matches, 1, Len(before))

\* a satisfaction had two unmatched mortgages of equal, accepted score and
\* was matched to the earlier one; a later satisfaction took the other
C23_Witness ==
    /\ Rematched
    /\ Len(matchResults.matches) = 2
    /\ \E k \in 1..Len(scannedSatisfactions) :
          /\ Cardinality(TopOfPool(k)) = 2
          /\ matchResults.matches[1].satisfaction.id
                 = scannedSatisfactions[k].id
          /\ matchResults.matches[1].mortgage.id
                 = scannedMortgages[FirstOfTop(k)].id
          /\ matchResults.matches[1].score >= 30


\* the order decides: the satisfaction that names the mortgage's instrument
\* number came second and found the mortgage taken, by a match of score 65
C23_EarlierSatisfactionKeepsMortgage ==
    /\ Rematched
    /\ Len(scannedSatisfactions) = 2
    /\ Len(matchResults.matches) = 1
    /\ matchResults.matches[1].score = 65
    /\ InstrumentSignal(scannedSatisfactions[2],
                        matchResults.matches[1].mortgage)

\* ---- C24 ----

\* 3, 2, 1 and 1 for the values parseMortgageText extracted (not null)
PresentScore(info) ==
      (IF info.principalAmount # NullNumber THEN 3 ELSE 0)
    + (IF info.lenderName # Null THEN 2 ELSE 0)
    + (IF info.interestRate # NullNumber THEN 1 ELSE 0)
    + (IF info.maturityDate # Null THEN 1 ELSE 0)

\* C24: the confidence parseMortgageText returns is the tier ('high' from 4,
\* 'medium' from 2, else 'low') of 3 for an extracted principal amount, 2 for
\* an extracted lender name, 1 for an extracted interest rate and 1 for an
\* extracted maturity date, whatever the extracted values are, an interest
\* rate of 0 included.
C24_ConfidenceCountsExtractedValues ==
    (pc = "mortgage" /\ ~TooShort(docText)) =>
        parsedInfo.confidence = ConfidenceTier(PresentScore(parsedInfo))

\* parseMortgageText extracted an interest rate of 0 and a maturity date
C24_RateOfZeroExtracted ==
    /\ pc = "mortgage"
    /\ parsedInfo.interestRate = 0
    /\ parsedInfo.maturityDate # Null
    /\ parsedInfo.confidence = "low"

\* ---- C25 ----

\* the mortgage analysis is the one performTitleSearch returns
AnalysisReturned == pc \in {"liens", "flags", "summary", "done", "error"}

\* C25: in the mortgage analysis of a search, name-only or scanned, for
\* every list of documents: satisfied + open.length = total, the length of
\* satisfiedList is satisfied, and total is the number of mortgages of the
\* grouping.
C25_AnalysisCountsAddUp ==
    AnalysisReturned =>
        /\ mortgageAnalysis.total = Len(grouped["mortgages"])
        /\ mortgageAnalysis.satisfied + Len(mortgageAnalysis.open)
               = mortgageAnalysis.total
        /\ Len(mortgageAnalysis.satisfiedList) = mortgageAnalysis.satisfied

\* a scanned search returned one matched mortgage (confidence 'medium') and
\* one open mortgage
C25_Witness ==
    /\ Rematched
    /\ mortgageAnalysis.total = 2
    /\ mortgageAnalysis.satisfied = 1
    /\ Len(mortgageAnalysis.open) = 1
    /\ mortgageAnalysis.satisfiedList[1].confidence = "medium"

\* a search without scanning returned one satisfied and one open mortgage
C25_NameOnlyWitness ==
    /\ Analyzed
    /\ pc = "done"
    /\ mortgageAnalysis.total = 2
    /\ mortgageAnalysis.satisfied = 1
    /\ Len(mortgageAnalysis.open) = 1

\* ---- C26 ----

\* C26: when the batch extraction returns for N documents, results.documents
\* holds one entry per input document, in input order, scanned = N and
\* successful + needsManualReview + failed = N, whatever the extractions
\* did; while the loop runs the same holds of the documents handled so far.
C26_BatchAccountsForEveryDocument ==
    /\ Len(scanResults.documents) = scanResults.scanned
    /\ scanResults.successful + scanResults.needsManualReview
           + scanResults.failed = scanResults.scanned
    /\ \A k \in 1..Len(scanResults.documents) :
          /\ k <= Len(DocsToScan)
          /\ scanResults.documents[k].id = DocsToScan[k].id
    /\ BatchReturned => scanResults.scanned = Len(DocsToScan)

\* a batch returned that had a read text, an empty text and a thrown error
C26_Witness ==
    /\ BatchReturned
    /\ scanResults.scanned >= 3
    /\ scanResults.successful >= 1
    /\ scanResults.needsManualReview >= 1
    /\ scanResults.failed >= 1

\* ---- C27 ----

\* the reference patterns that match the text, in rule order: 1 instrument
\* number, 2 book and page, 3 CFN
ReferenceRules(text) ==
    (IF DigitsAfter(ToUpper(text), <<"I","N","S","T","R","U","M","E","N","T"," ","N","O","."," ">>, 6) # Null
     THEN {1} ELSE {})
    \cup (IF BookPageOf(ToUpper(text), 1) # <<>> THEN {2} ELSE {})
    \cup (IF DigitsAfter(ToUpper(text), <<"C","F","N"," ">>, 6) # Null
          THEN {3} ELSE {})

FirstReferenceRule(text) ==
    CHOOSE r \in ReferenceRules(text) : \A q \in ReferenceRules(text) : r <= q

\* C27: parseSatisfactionText never returns both satisfiedInstrumentNumber
\* and satisfiedBookPage: the book and page is set iff the first reference
\* pattern that matches, in rule order, is the book and page pattern, the
\* instrument number iff it is one of the other two, and neither when no
\* pattern matches.
C27_AtMostOneReference ==
    (pc = "satisfaction" /\ ~TooShort(docText)) =>
        /\ ~ (/\ parsedInfo.satisfiedInstrumentNumber # Null
              /\ parsedInfo.satisfiedBookPage # Null)
        /\ parsedInfo.satisfiedBookPage # Null
               <=> /\ ReferenceRules(docText) # {}
                   /\ FirstReferenceRule(docText) = 2
        /\ parsedInfo.satisfiedInstrumentNumber # Null
               <=> /\ ReferenceRules(docText) # {}
                   /\ FirstReferenceRule(docText) \in {1, 3}

\* a text with a book and page followed by an instrument number was parsed:
\* the instrument number, first in rule order, is the only reference
C27_Witness ==
    /\ pc = "satisfaction"
    /\ ReferenceRules(docText) = {1, 2}
    /\ BookPageOf(ToUpper(docText), 1)[3]
           < CHOOSE k \in Occurrences(ToUpper(docText), <<"I","N","S","T","R","U","M","E","N","T">>) : TRUE
    /\ parsedInfo.satisfiedInstrumentNumber = <<"1","0","0","0","0","1">>
    /\ parsedInfo.satisfiedBookPage = Null

\* a text whose only reference is a book and page was parsed
C27_BookPageOnly ==
    /\ pc = "satisfaction"
    /\ ReferenceRules(docText) = {2}
    /\ parsedInfo.satisfiedBookPage # Null
    /\ parsedInfo.satisfiedInstrumentNumber = Null

\* ---- C28 ----

\* no call of terminateOCR has started
NoTerminateYet ==
    \A c \in 1..Len(calls) :
        calls[c].kind = "terminateOCR" => calls[c].at = "start"

\* the calls of runOCR that hold a worker
Holders == {c \in 1..Len(calls) : calls[c].at \in {"gotWorker", "recognizing"}}

\* C28: in the Node extractor, whatever the interleaving of the calls of
\* runOCR, while no terminateOCR has intervened at most one worker was
\* created, every call that holds a worker holds that one, and it is the
\* worker tesseractWorker refers to (no created worker is unreferenced).
C28_OneWorkerForAllCallers ==
    (impl = "node" /\ NoTerminateYet) =>
        /\ Len(workers) <= 1
        /\ \A c \in Holders : calls[c].worker = tesseractWorker
        /\ \A w \in 1..Len(workers) : tesseractWorker = w

\* two calls of runOCR of the Node extractor hold different workers
C28_TwoWorkers ==
    /\ impl = "node"
    /\ NoTerminateYet
    /\ \E c, d \in Holders : calls[c].worker # calls[d].worker

\* ---- C29 ----

\* C29 (its safety half): in the browser scanner every call of
\* initTesseract that returns hands runOCR an initialized worker, not null,
\* also a call that waited for an initialization in progress, and also when
\* that initialization failed.
C29_InitReturnsAWorker ==
    impl = "browser" =>
        \A c \in 1..Len(calls) :
            calls[c].at = "gotWorker" => calls[c].worker \in 1..Len(workers)

\* a call that waited was handed null although no terminateOCR ran and no
\* worker exists: the initialization it waited for failed
C29_NullAfterFailedInit ==
    /\ impl = "browser"
    /\ workers = <<>>
    /\ \A c \in 1..Len(calls) : calls[c].kind = "runOCR"
    /\ \E c \in 1..Len(calls) :
          calls[c].at = "gotWorker" /\ calls[c].worker = 0

\* in the Node extractor a call of initTesseract that returns hands out a
\* worker
C29_NodeReturnsAWorker ==
    impl = "node" =>
        \A c \in 1..Len(calls) :
            calls[c].at = "gotWorker" => calls[c].worker \in 1..Len(workers)

\* ---- C30 ----

\* C30: whatever the interleaving of terminateOCR with the calls of runOCR,
\* no recognize is issued on a worker on which terminate was called: no
\* call is handed, or holds, a worker on which terminate was called, and
\* the worker tesseractWorker refers to is terminated only while a
\* terminateOCR awaits it.
C30_NoRecognizeOnTerminatedWorker ==
    /\ \A w \in 1..Len(workers) : ~workers[w].recognizedLate
    /\ \A c \in 1..Len(calls) :
          (calls[c].at = "gotWorker" /\ calls[c].worker # 0)
              => ~workers[calls[c].worker].terminated
    /\ (tesseractWorker # 0 /\ workers[tesseractWorker].terminated)
           => \E c \in 1..Len(calls) :
                  /\ calls[c].at = "terminating"
                  /\ calls[c].worker = tesseractWorker

\* no call of initTesseract is handed a worker on which terminate was
\* called (the step from "start" to "gotWorker" is initTesseract's return)
C30_NotHandedOutWhileTerminating ==
    [][\A c \in 1..Len(calls) :
          (calls[c].at = "start" /\ calls'[c].at = "gotWorker")
              => ~workers[calls'[c].worker].terminated]_vars

\* a recognize was issued on a terminated worker, in each program
C30_LateRecognizeNode ==
    impl = "node" /\ \E w \in 1..Len(workers) : workers[w].recognizedLate

C30_LateRecognizeBrowser ==
    impl = "browser" /\ \E w \in 1..Len(workers) : workers[w].recognizedLate

\* after terminateOCR returned, the next call of runOCR created a worker
C30_FreshWorkerAfterTerminate ==
    /\ Len(workers) = 2
    /\ workers[1].terminated
    /\ tesseractWorker = 2
    /\ \A c \in 1..Len(calls) : calls[c].at # "terminating"


\* the calls are scheduled: a continuation that stays ready runs, and every
\* awaited promise settles
SpecOcrFair ==
    /\ SpecOcr
    /\ \A c \in 1..MaxCalls :
          /\ WF_vars(c <= Len(calls) /\ InitTesseract(c))
          /\ WF_vars(c <= Len(calls)
                        /\ (CreateWorkerResolves(c) \/ CreateWorkerRejects(c)))
          /\ WF_vars(c <= Len(calls) /\ WaitOver(c))
          /\ WF_vars(c <= Len(calls) /\ Recognize(c))
          /\ WF_vars(c <= Len(calls) /\ RecognizeSettles(c))
          /\ WF_vars(c <= Len(calls) /\ TerminateOCR(c))
          /\ WF_vars(c <= Len(calls) /\ TerminateSettles(c))

\* C29 (its liveness half): a call that waits in the loop of initTesseract
\* leaves the loop
C29_WaitLoopEnds ==
    \A c \in 1..MaxCalls :
        (c <= Len(calls) /\ calls[c].at = "waiting")
            ~> (c <= Len(calls) /\ calls[c].at # "waiting")

=============================================================================
